---- MODULE Spec2Model ----
(***************************************************************************)
(* A model of rip_shuffle (manpen/rip_shuffle): the bucket abstraction,    *)
(* the uniform index sampler, Fisher-Yates, and the scatter-shuffle        *)
(* drivers.  Array slots are addressed by 0-based offsets, as in the Rust  *)
(* source; the TLA+ sequence `data` holds slot p at index p + 1.           *)
(***************************************************************************)
EXTENDS Integers, Sequences, FiniteSets, TLC

(***************************************************************************)
(* Bounds of the model.                                                    *)
(***************************************************************************)
MaxLen == 6
MaxBuckets == 3
MaxBits == 6       \* widths 1..MaxBits of the sampler are checked for every bound
NarrowBits == 6    \* width standing for u32 in gen_index; the wide width is twice it
MaxUb == 8         \* upper bounds passed to the dispatching gen_index
MaxFY == 5         \* array lengths 0..MaxFY of the Fisher-Yates base case
MaxN == 4          \* array lengths 0..MaxN handed to the drivers
MaxDepth == 2      \* calls of shuffle the call stack of a driver can hold
SwapsPerRound == 1 \* SWAPS_PER_ROUND of the accelerated rough shuffle (64 / log_n in the source)

VARIABLES
    data,      \* the caller's array: a sequence of opaque elements
    buckets,   \* the bucket set: a sequence of [start, len, np]
    pc,        \* control state of the component that is running
    orig,      \* ghost: array and bucket set after construction
    ops,       \* ghost: the operations applied so far, with the state before each
    smp,       \* the index sampler: width, bound, product halves, threshold, result
    fy,        \* Fisher-Yates: the loop index and the indices drawn so far
    stack,     \* the driver: the frames of the calls in progress, innermost last
    cfg,       \* the driver: its configuration and build
    par        \* the parallel driver: its tasks, their random sources, the run

vars == <<data, buckets, pc, orig, ops, smp, fy, stack, cfg, par>>

\* the variables a specification of one component leaves alone
bucketIdle == <<smp, fy, stack, cfg, par>>
samplerIdle == <<data, buckets, orig, ops, fy, stack, cfg, par>>
fyIdle == <<buckets, ops, smp, stack, cfg, par>>
seqIdle == <<buckets, ops, smp, fy, par>>
parIdle == <<buckets, ops, smp, fy, stack>>

NoSampler == [entry |-> "none"]
NoFisherYates == [i |-> 0, draws |-> <<>>]
NoConfig == [base_case_size |-> 0]
NoPar == [run |-> 0]

Min(a, b) == IF a <= b THEN a ELSE b
Max(a, b) == IF a >= b THEN a ELSE b

RECURSIVE SumSeq(_)
SumSeq(s) == IF s = <<>> THEN 0 ELSE Head(s) + SumSeq(Tail(s))

(***************************************************************************)
(* Slices and buckets.  A slice is [start, len]; a bucket is a slice with  *)
(* the number of processed elements of its prefix.                         *)
(***************************************************************************)
Bucket(start, len, np) == [start |-> start, len |-> len, np |-> np]

num_unprocessed(b) == b.len - b.np

is_fully_processed(b) == b.np = b.len

\* mutant: a bucket anywhere to the right passes for the right neighbor
is_left_neighbor_of_any(l, r) == l.start + l.len <= r.start

is_left_neighbor_of(l, r) == l.start + l.len = r.start

\* <[T]>::swap_with_slice on the m slots from offset a and the m slots from offset b
swap_with_slice(d, a, b, m) ==
    [p \in DOMAIN d |->
        IF a + 1 <= p /\ p <= a + m THEN d[p - a + b]
        ELSE IF b + 1 <= p /\ p <= b + m THEN d[p - b + a]
        ELSE d[p]]

\* the outcome of a bucket operation: the array, the two buckets, and whether
\* the operation ran to its end (ok) or stopped at a failed assertion
Outcome(d, l, r, ok) == [data |-> d, left |-> l, right |-> r, ok |-> ok]

\* mutant: the left stash is swapped with the first processed elements of r
move_stash_to_right_neighbor_first(d, l, r) ==
    IF ~is_left_neighbor_of(l, r) THEN Outcome(d, l, r, FALSE)
    ELSE
        LET num_elements_to_move == Min(num_unprocessed(l), r.np)
            left  == l.start + l.np
            right == r.start
        IN  Outcome(swap_with_slice(d, left, right, num_elements_to_move),
                    [l EXCEPT !.np = @ + num_elements_to_move],
                    [r EXCEPT !.np = @ - num_elements_to_move],
                    TRUE)

move_stash_to_right_neighbor(d, l, r) ==
    IF ~is_left_neighbor_of(l, r) THEN Outcome(d, l, r, FALSE)
    ELSE
        LET num_elements_to_move == Min(num_unprocessed(l), r.np)
            left  == l.start + l.np
            right == r.start + r.np - num_elements_to_move
        IN  Outcome(swap_with_slice(d, left, right, num_elements_to_move),
                    [l EXCEPT !.np = @ + num_elements_to_move],
                    [r EXCEPT !.np = @ - num_elements_to_move],
                    TRUE)

\* Block::merge_with_right_neighbor: the merged bucket is returned in .left
merge_with_right_neighbor(d, l, r) ==
    IF ~is_left_neighbor_of(l, r) THEN Outcome(d, l, r, FALSE)
    ELSE
        LET moved == move_stash_to_right_neighbor(d, l, r)
        IN  IF ~moved.ok THEN moved
            ELSE Outcome(moved.data,
                         Bucket(moved.left.start,
                                moved.left.len + moved.right.len,
                                moved.left.np + moved.right.np),
                         moved.right,
                         TRUE)

\* Slicing::give_to_right_neighbor: the last num slots of l become the first of r
give_to_right_neighbor(l, r, num) ==
    <<[l EXCEPT !.len = @ - num],
      [r EXCEPT !.start = @ - num, !.len = @ + num]>>

\* Slicing::give_to_left_neighbor: the first num slots of r become the last of l
give_to_left_neighbor(l, r, num) ==
    <<[l EXCEPT !.len = @ + num],
      [r EXCEPT !.start = @ + num, !.len = @ - num]>>

\* mutant: the last to_move slots of l are swapped, not the first of its last num
shrink_to_right_tail(d, l, r, num) ==
    IF ~is_left_neighbor_of(l, r) \/ ~(num <= num_unprocessed(l))
    THEN Outcome(d, l, r, FALSE)
    ELSE
        LET to_move == Min(r.np, num)
            left    == l.start + l.len - to_move
            right   == r.start + r.np - to_move
            given   == give_to_right_neighbor(l, r, num)
        IN  Outcome(swap_with_slice(d, left, right, to_move), given[1], given[2], TRUE)

shrink_to_right(d, l, r, num) ==
    IF ~is_left_neighbor_of(l, r) \/ ~(num <= num_unprocessed(l))
    THEN Outcome(d, l, r, FALSE)
    ELSE
        LET to_move == Min(r.np, num)
            left    == l.start + l.len - num
            right   == r.start + r.np - to_move
            given   == give_to_right_neighbor(l, r, num)
        IN  Outcome(swap_with_slice(d, left, right, to_move), given[1], given[2], TRUE)

\* mutant: the slots taken over are swapped with the first processed elements of r
grow_from_right_first(d, l, r, num) ==
    IF ~is_left_neighbor_of(l, r) \/ ~(num <= num_unprocessed(r))
    THEN Outcome(d, l, r, FALSE)
    ELSE
        LET given   == give_to_left_neighbor(l, r, num)
            nl      == given[1]
            nr      == given[2]
            to_move == Min(nr.np, num)
            left    == nl.start + nl.len - num
            right   == nr.start
        IN  Outcome(swap_with_slice(d, left, right, to_move), nl, nr, TRUE)

grow_from_right(d, l, r, num) ==
    IF ~is_left_neighbor_of(l, r) \/ ~(num <= num_unprocessed(r))
    THEN Outcome(d, l, r, FALSE)
    ELSE
        LET given   == give_to_left_neighbor(l, r, num)
            nl      == given[1]
            nr      == given[2]
            to_move == Min(nr.np, num)
            left    == nl.start + nl.len - num
            right   == nr.start + nr.np - to_move
        IN  Outcome(swap_with_slice(d, left, right, to_move), nl, nr, TRUE)

\* compact_into_single_bucket: pop the last bucket, then merge every earlier
\* bucket with the result, right to left.  Returns [data, bucket, ok].
RECURSIVE compact_into_single_bucket(_, _)
compact_into_single_bucket(d, bs) ==
    IF Len(bs) = 1 THEN [data |-> d, bucket |-> bs[1], ok |-> TRUE]
    ELSE
        LET rest == compact_into_single_bucket(d, Tail(bs))
        IN  IF ~rest.ok THEN rest
            ELSE LET m == merge_with_right_neighbor(rest.data, Head(bs), rest.bucket)
                 IN  [data |-> m.data, bucket |-> m.left, ok |-> m.ok]

(***************************************************************************)
(* The uniform index sampler (Lemire's multiply-and-reject), for a word    *)
(* width of w bits.                                                        *)
(***************************************************************************)
Pow2(k) == 2 ^ k

Words(w) == 0..(Pow2(w) - 1)

\* mutant: the high half taken one bit too low
wide_multiply_shift(w, a, b) ==
    LET res == (a * b) % Pow2(2 * w)
    IN  [lo |-> res % Pow2(w), hi |-> (res \div Pow2(w - 1)) % Pow2(w)]

\* WideMul::wide_multiply: the halves (lo, hi) of the 2w-bit product
wide_multiply(w, a, b) ==
    LET res == (a * b) % Pow2(2 * w)
    IN  [lo |-> res % Pow2(w), hi |-> (res \div Pow2(w)) % Pow2(w)]

wrapping_neg(w, a) == (Pow2(w) - a) % Pow2(w)

\* mutant: the threshold without the reduction modulo the bound
rejection_threshold_unreduced(w, ub) == wrapping_neg(w, ub)

\* let t = exclusive_ub.wrapping_neg() % exclusive_ub
rejection_threshold(w, ub) == wrapping_neg(w, ub) % ub

\* whether gen_index_impl returns on the word x: on the fast path (lo >= ub) or
\* at the test of the loop (lo >= t)
accepts(w, ub, x) ==
    LET m == wide_multiply(w, x, ub)
    IN  m.lo >= ub \/ m.lo >= rejection_threshold(w, ub)

\* the words on which gen_index_impl returns v
accepted_words(w, ub, v) ==
    {x \in Words(w) : accepts(w, ub, x) /\ wide_multiply(w, x, ub).hi = v}

\* U32_MAX_UPPER_BOUND = u32::MAX / 16, for a narrow width of h bits
U32_MAX_UPPER_BOUND(h) == (Pow2(h) - 1) \div 16


Sampler(entry, w, ub) ==
    [entry |-> entry, w |-> w, ub |-> ub, x |-> 0, lo |-> 0, hi |-> 0, t |-> 0,
     result |-> 0]

(***************************************************************************)
(* The sequential scatter shuffle, scatter_shuffle/sequential.rs, with the *)
(* rough shuffle of rough_shuffle/.  The operators below are the steps     *)
(* that draw nothing; each returns the array, the bucket set and whether   *)
(* the step ran to its end (ok) or stopped at a failed assertion.          *)
(***************************************************************************)
Step(d, bs, ok) == [data |-> d, buckets |-> bs, ok |-> ok]

UsizeBits == 9     \* width standing for usize in the index arithmetic

\* usize multiplication and subtraction of a build without overflow checks
wrapping_mul(a, b) == (a * b) % Pow2(UsizeBits)
wrapping_sub(a, b) == (a - b + Pow2(UsizeBits)) % Pow2(UsizeBits)

RECURSIVE split_loop(_, _, _, _, _, _, _)
\* the loop of split_slice_into_equally_sized_buckets at iteration i (0-based),
\* with `rest` slots of the slice not yet handed out and the buckets pushed so
\* far; overflow_checks is the build's setting (on: an overflow panics, off:
\* it wraps).  split_at_mut panics on a length beyond the rest.
split_loop(pos, rest, total_len, N, i, bs, overflow_checks) ==
    IF i = N THEN [ok |-> TRUE, buckets |-> bs]
    ELSE
        LET start == wrapping_mul(i, total_len) \div N
            end   == wrapping_mul(i + 1, total_len) \div N
            mid   == wrapping_sub(end, start)
        IN  IF overflow_checks
               /\ ((i + 1) * total_len >= Pow2(UsizeBits) \/ end < start)
            THEN [ok |-> FALSE, buckets |-> bs]
            ELSE IF mid > rest
            THEN [ok |-> FALSE, buckets |-> bs]
            ELSE split_loop(pos + mid, rest - mid, total_len, N, i + 1,
                            Append(bs, Bucket(pos, mid, 0)), overflow_checks)

\* split_slice_into_equally_sized_buckets on the slice [start, start + len),
\* for the lengths of the drivers' scenarios, where N * len stays below
\* 2^UsizeBits and the loop above returns this value
split_slice_into_equally_sized_buckets(start, len, N) ==
    [i \in 1..N |->
        Bucket(start + ((i - 1) * len) \div N,
               (i * len) \div N - ((i - 1) * len) \div N,
               0)]

RECURSIVE compact_ranges_from(_, _, _, _, _)
\* the loop of compact_ranges at donor i (the donors are visited right to left)
compact_ranges_from(d, bs, i, num_accepted, space_available) ==
    IF i < 1 THEN Step(d, bs, TRUE)
    ELSE IF num_unprocessed(bs[i]) = 0
    THEN compact_ranges_from(d, bs, i - 1, num_accepted, space_available)
    ELSE
        LET acceptor  == bs[Len(bs)]
            to_accept == num_unprocessed(bs[i])
            from      == bs[i].start + bs[i].np
            to        == acceptor.start + acceptor.len - (num_accepted + to_accept)
        IN  IF ~(to_accept <= space_available) THEN Step(d, bs, FALSE)
            ELSE compact_ranges_from(swap_with_slice(d, from, to, to_accept), bs, i - 1,
                                     num_accepted + to_accept,
                                     space_available - to_accept)

\* compact_ranges that counts nothing of the last bucket as accepted
compact_ranges_over_acceptor(d, bs) ==
    compact_ranges_from(d, bs, Len(bs) - 1, 0, bs[Len(bs)].len)

\* compact_ranges: swap the stash of every donor into the processed slots at
\* the tail of the last bucket
compact_ranges(d, bs) ==
    compact_ranges_from(d, bs, Len(bs) - 1,
                        num_unprocessed(bs[Len(bs)]), bs[Len(bs)].np)

RECURSIVE shrink_sweep_to_right_from(_, _, _, _, _)
\* the loop of shrink_sweep_to_right at bucket i
shrink_sweep_to_right_from(d, bs, target_lengths, i, growth_needed_left) ==
    IF i > Len(bs) - 1 THEN Step(d, bs, TRUE)
    ELSE
        LET target_length           == target_lengths[i]
            reservation_for_left    == Max(growth_needed_left, 0)
            target_with_reservation == target_length + reservation_for_left
            num_to_move             == bs[i].len - target_with_reservation
            o   == IF bs[i].len > target_with_reservation
                   THEN shrink_to_right(d, bs[i], bs[i + 1], num_to_move)
                   ELSE Outcome(d, bs[i], bs[i + 1], TRUE)
            nbs == [bs EXCEPT ![i] = o.left, ![i + 1] = o.right]
        IN  IF ~o.ok THEN Step(o.data, bs, FALSE)
            ELSE shrink_sweep_to_right_from(
                     o.data, nbs, target_lengths, i + 1,
                     growth_needed_left + target_length - o.left.len)

shrink_sweep_to_right(d, bs, target_lengths) ==
    shrink_sweep_to_right_from(d, bs, target_lengths, 1, 0)

RECURSIVE shrink_sweep_to_left_from(_, _, _, _)
\* the loop of shrink_sweep_to_left at bucket i (from the last bucket down to the second)
shrink_sweep_to_left_from(d, bs, target_lengths, i) ==
    IF i < 2 THEN Step(d, bs, TRUE)
    ELSE IF bs[i].len <= target_lengths[i]
    THEN shrink_sweep_to_left_from(d, bs, target_lengths, i - 1)
    ELSE
        LET too_long_by == bs[i].len - target_lengths[i]
            o   == grow_from_right(d, bs[i - 1], bs[i], too_long_by)
            nbs == [bs EXCEPT ![i - 1] = o.left, ![i] = o.right]
        IN  IF ~o.ok THEN Step(o.data, bs, FALSE)
            ELSE shrink_sweep_to_left_from(o.data, nbs, target_lengths, i - 1)

\* the sweep that leaves the last bucket out
shrink_sweep_to_left_below_last(d, bs, target_lengths) ==
    shrink_sweep_to_left_from(d, bs, target_lengths, Len(bs) - 1)

shrink_sweep_to_left(d, bs, target_lengths) ==
    shrink_sweep_to_left_from(d, bs, target_lengths, Len(bs))

\* move_buckets_to_fit_target_len: both sweeps, then the assertion that every
\* bucket has its target length
move_buckets_to_fit_target_len(d, bs, target_lengths) ==
    LET right == shrink_sweep_to_right(d, bs, target_lengths)
        left  == shrink_sweep_to_left(right.data, right.buckets, target_lengths)
    IN  IF ~right.ok THEN right
        ELSE IF ~left.ok THEN left
        ELSE Step(left.data, left.buckets,
                  \A i \in 1..Len(bs) : left.buckets[i].len = target_lengths[i])

RECURSIVE multinomial_open_last(_, _)
\* multinomial whose last bin takes a share of the balls left as the others do
multinomial_open_last(num_bins, num_balls) ==
    IF num_bins = 1 THEN {<<into_this_bin>> : into_this_bin \in 0..num_balls}
    ELSE UNION {{<<into_this_bin>> \o rest :
                    rest \in multinomial_open_last(num_bins - 1, num_balls - into_this_bin)} :
                into_this_bin \in 0..num_balls}

RECURSIVE multinomial(_, _)
\* the sequences multinomial(rng, num_bins, num_balls) can yield: each bin takes a
\* binomial share of the balls left, the last bin (p = 1) takes all of them
multinomial(num_bins, num_balls) ==
    IF num_bins = 1 THEN {<<num_balls>>}
    ELSE UNION {{<<into_this_bin>> \o rest :
                    rest \in multinomial(num_bins - 1, num_balls - into_this_bin)} :
                into_this_bin \in 0..num_balls}

(***************************************************************************)
(* SpecBucket: bucket operations applied to a bucket set.  The array holds *)
(* the distinct elements 1..n; a caller applies one operation to           *)
(* consecutive buckets of the set, or shrinks a bucket to the right and    *)
(* grows it back by the same number of slots.                              *)
(***************************************************************************)
Identity(n) == [p \in 1..n |-> p]

RECURSIVE Starts(_, _)
\* the buckets with the given lengths and processed counts, laid out from offset s
Starts(shape, s) ==
    IF shape = <<>> THEN <<>>
    ELSE <<Bucket(s, Head(shape)[1], Head(shape)[2])>>
         \o Starts(Tail(shape), s + Head(shape)[1])

Shapes(nb) ==
    {sh \in [1..nb -> (0..MaxLen) \X (0..MaxLen)] :
        /\ \A i \in 1..nb : sh[i][2] <= sh[i][1]
        /\ SumSeq([i \in 1..nb |-> sh[i][1]]) <= MaxLen}

\* the scenario of two buckets of lengths (6, 4) with stash sizes (2, 1)
ScenarioShape == <<<<6, 4>>, <<4, 3>>>>

InitBucket ==
    /\ \E sh \in {ScenarioShape} \cup UNION {Shapes(nb) : nb \in 1..MaxBuckets} :
        /\ buckets = Starts(sh, 0)
        /\ data = Identity(SumSeq([i \in 1..Len(sh) |-> sh[i][1]]))
    /\ pc = "run"
    /\ orig = [data |-> data, buckets |-> buckets]
    /\ ops = <<>>
    /\ smp = NoSampler
    /\ fy = NoFisherYates
    /\ stack = <<>>
    /\ cfg = NoConfig
    /\ par = NoPar

Before == [data |-> data, buckets |-> buckets]

\* replace buckets i and i+1 of the set by the two buckets of an outcome
SetPair(bs, i, o) == [bs EXCEPT ![i] = o.left, ![i + 1] = o.right]

\* replace buckets i and i+1 of the set by the merged bucket
SetMerged(bs, i, b) ==
    [j \in 1..(Len(bs) - 1) |-> IF j < i THEN bs[j] ELSE IF j = i THEN b ELSE bs[j + 1]]

Apply(name, i, k, o, bs) ==
    /\ data' = o.data
    /\ buckets' = IF o.ok THEN bs ELSE buckets
    /\ pc' = IF o.ok THEN "run" ELSE "abort"
    /\ ops' = Append(ops, [name |-> name, i |-> i, k |-> k, before |-> Before])
    /\ UNCHANGED <<orig, bucketIdle>>

CanApply == pc = "run" /\ ops = <<>>

\* the caller that grows bucket i back by the k slots it has just given away
CanGrowBack(i, k) ==
    /\ pc = "run" /\ Len(ops) = 1
    /\ ops[1].name = "shrink_to_right" /\ ops[1].i = i /\ ops[1].k = k

ShrinkToRight ==
    /\ CanApply
    /\ \E i \in 1..(Len(buckets) - 1) :
       \E k \in 0..(num_unprocessed(buckets[i]) + 1) :
        LET o == shrink_to_right(data, buckets[i], buckets[i + 1], k)
        IN  Apply("shrink_to_right", i, k, o, SetPair(buckets, i, o))

GrowFromRight ==
    \E i \in 1..(Len(buckets) - 1) :
       \E k \in 0..(num_unprocessed(buckets[i + 1]) + 1) :
        /\ CanApply \/ CanGrowBack(i, k)
        /\ LET o == grow_from_right(data, buckets[i], buckets[i + 1], k)
           IN  Apply("grow_from_right", i, k, o, SetPair(buckets, i, o))

MoveStashToRightNeighbor ==
    /\ CanApply
    /\ \E i \in 1..(Len(buckets) - 1) :
        LET o == move_stash_to_right_neighbor(data, buckets[i], buckets[i + 1])
        IN  Apply("move_stash_to_right_neighbor", i, 0, o, SetPair(buckets, i, o))

MergeWithRightNeighbor ==
    /\ CanApply
    /\ \E i \in 1..(Len(buckets) - 1) :
        LET o == merge_with_right_neighbor(data, buckets[i], buckets[i + 1])
        IN  Apply("merge_with_right_neighbor", i, 0, o, SetMerged(buckets, i, o.left))

CompactIntoSingleBucket ==
    /\ CanApply
    /\ LET c == compact_into_single_bucket(data, buckets)
           o == Outcome(c.data, c.bucket, c.bucket, c.ok)
       IN  Apply("compact_into_single_bucket", 1, 0, o, <<c.bucket>>)

NextBucket ==
    \/ ShrinkToRight
    \/ GrowFromRight
    \/ MoveStashToRightNeighbor
    \/ MergeWithRightNeighbor
    \/ CompactIntoSingleBucket

SpecBucket == InitBucket /\ [][NextBucket]_vars

(***************************************************************************)
(* Properties of the bucket operations.                                    *)
(***************************************************************************)
\* the elements in the processed prefix / the unprocessed suffix of bucket b
ProcSet(d, b) == {d[p + 1] : p \in b.start .. (b.start + b.np - 1)}
StashSet(d, b) == {d[p + 1] : p \in (b.start + b.np) .. (b.start + b.len - 1)}

LastOp == ops[Len(ops)]

RECURSIVE ProcUnion(_, _)
ProcUnion(d, bs) ==
    IF bs = <<>> THEN {} ELSE ProcSet(d, Head(bs)) \cup ProcUnion(d, Tail(bs))

RECURSIVE StashUnion(_, _)
StashUnion(d, bs) ==
    IF bs = <<>> THEN {} ELSE StashSet(d, Head(bs)) \cup StashUnion(d, Tail(bs))

\* bucket m of the current state is the merge of the buckets bs of state b
IsMergeOf(m, b, bs) ==
    /\ m.start = bs[1].start
    /\ m.len = SumSeq([j \in 1..Len(bs) |-> bs[j].len])
    /\ m.np = SumSeq([j \in 1..Len(bs) |-> bs[j].np])
    /\ ProcSet(data, m) = ProcUnion(b.data, bs)
    /\ StashSet(data, m) = StashUnion(b.data, bs)

\* C8: merge_with_right_neighbor, and compact_into_single_bucket on a whole
\* bucket set, yield one bucket spanning the merged ranges whose num_processed
\* is the sum of the merged buckets' num_processed, whose first num_processed
\* slots hold exactly the elements that were processed before and whose
\* remaining suffix holds exactly the elements that were stash before.
C8_MergeKeepsProcessedAndStash ==
    (ops # <<>>) =>
        LET b == LastOp.before
            i == LastOp.i
        IN  /\ (LastOp.name = "merge_with_right_neighbor") =>
                /\ pc = "run"
                /\ Len(buckets) = Len(b.buckets) - 1
                /\ IsMergeOf(buckets[i], b, <<b.buckets[i], b.buckets[i + 1]>>)
            /\ (LastOp.name = "compact_into_single_bucket") =>
                /\ pc = "run"
                /\ Len(buckets) = 1
                /\ IsMergeOf(buckets[1], b, b.buckets)

\* a merge that had to swap: the left stash and the right processed prefix were
\* both non-empty, and stash remained on both sides
C8_Witness ==
    /\ ops # <<>>
    /\ LastOp.name = "merge_with_right_neighbor"
    /\ pc = "run"
    /\ LET l == LastOp.before.buckets[LastOp.i]
           r == LastOp.before.buckets[LastOp.i + 1]
       IN  /\ num_unprocessed(l) >= 2 /\ l.np >= 1
           /\ r.np >= 1 /\ num_unprocessed(r) >= 1
    /\ data # LastOp.before.data

\* the postcondition of a transfer of k slots across the boundary of buckets
\* i and i+1: delta is the change of the left length
Transferred(b, i, delta) ==
    LET l == b.buckets[i]
        r == b.buckets[i + 1]
        nl == buckets[i]
        nr == buckets[i + 1]
    IN  /\ pc = "run"
        /\ nl.len = l.len + delta /\ nr.len = r.len - delta
        /\ nl.start = l.start /\ nr.start = r.start + delta
        /\ nl.np = l.np /\ nr.np = r.np
        /\ ProcSet(data, nl) = ProcSet(b.data, l)
        /\ ProcSet(data, nr) = ProcSet(b.data, r)
        /\ StashSet(data, nl) \cup StashSet(data, nr)
              = StashSet(b.data, l) \cup StashSet(b.data, r)

\* C9: shrink_to_right with k <= left's stash size and grow_from_right with
\* k <= right's stash size change the two lengths by exactly k in opposite
\* directions, leave both num_processed unchanged, keep every processed element
\* in the processed prefix of its bucket, and leave only stash elements in both
\* unprocessed suffixes.
C9_BoundaryTransfer ==
    (ops # <<>>) =>
        LET b == LastOp.before
            i == LastOp.i
            k == LastOp.k
        IN  /\ (LastOp.name = "shrink_to_right" /\ k <= num_unprocessed(b.buckets[i]))
                => Transferred(b, i, 0 - k)
            /\ (LastOp.name = "grow_from_right" /\ k <= num_unprocessed(b.buckets[i + 1]))
                => Transferred(b, i, k)

\* a shrink that moved more slots than the right bucket has processed elements,
\* and swapped some of them
C9_Witness ==
    /\ ops # <<>>
    /\ LastOp.name = "shrink_to_right"
    /\ pc = "run"
    /\ LastOp.k >= 2
    /\ LastOp.before.buckets[LastOp.i + 1].np >= 1
    /\ LastOp.before.buckets[LastOp.i + 1].np < LastOp.k
    /\ data # LastOp.before.data

\* the first two operations are shrink_to_right(i, k) and grow_from_right(i, k)
IsRoundTrip ==
    /\ Len(ops) >= 2
    /\ ops[1].name = "shrink_to_right"
    /\ ops[2].name = "grow_from_right"
    /\ ops[2].i = ops[1].i
    /\ ops[2].k = ops[1].k

Restored == data = orig.data /\ buckets = orig.buckets

\* C10 as stated: shrink_to_right(left, right, k) followed by
\* grow_from_right(left, right, k) restores both lengths and every element's
\* absolute position, for every k, the instance (6, 4), (2, 1), k = 3 included.
C10_RoundTripAnyK ==
    /\ (Len(ops) >= 1 /\ ops[1].name = "shrink_to_right") => pc = "run"
    /\ (IsRoundTrip /\ Len(ops) = 2) => Restored

\* C10 amended: the round trip restores lengths and positions when k is at most
\* left's stash size; otherwise (as in the instance (6, 4), (2, 1), k = 3)
\* shrink_to_right stops at its assertion with the array and buckets untouched.
C10_RoundTripWithinStash ==
    /\ (Len(ops) >= 1 /\ ops[1].name = "shrink_to_right") =>
          IF ops[1].k <= num_unprocessed(orig.buckets[ops[1].i])
          THEN Len(ops) = 1 => pc = "run"
          ELSE pc = "abort" /\ Len(ops) = 1 /\ Restored
    /\ (IsRoundTrip /\ Len(ops) = 2) => pc = "run" /\ Restored

\* a completed round trip in which both operations swapped elements
C10_Witness ==
    /\ IsRoundTrip /\ Len(ops) = 2 /\ pc = "run"
    /\ ops[1].k >= 2
    /\ orig.buckets[ops[1].i + 1].np >= 1
    /\ ops[2].before.data # orig.data
    /\ Restored

(***************************************************************************)
(* SpecSampler: one call of the index sampler.  Either gen_index of one    *)
(* width is called with any bound 1 <= ub < 2^w, or the dispatching        *)
(* gen_index is called; every word the RNG can deliver is drawn.           *)
(***************************************************************************)
InitSampler ==
    /\ \/ \E w \in 1..MaxBits : \E ub \in 1..(Pow2(w) - 1) :
            /\ smp = Sampler("impl", w, ub)
            /\ pc = "gen_index_impl"
       \/ \E ub \in 1..MaxUb :
            /\ smp = Sampler("dispatch", 0, ub)
            /\ pc = "gen_index"
    /\ data = <<>>
    /\ buckets = <<>>
    /\ orig = [data |-> <<>>, buckets |-> <<>>]
    /\ ops = <<>>
    /\ fy = NoFisherYates
    /\ stack = <<>>
    /\ cfg = NoConfig
    /\ par = NoPar

\* gen_index: the narrow sampler up to U32_MAX_UPPER_BOUND, the wide one above
GenIndex ==
    /\ pc = "gen_index"
    /\ smp' = [smp EXCEPT !.w = IF smp.ub <= U32_MAX_UPPER_BOUND(NarrowBits)
                                THEN NarrowBits ELSE 2 * NarrowBits]
    /\ pc' = "gen_index_impl"
    /\ UNCHANGED samplerIdle

\* gen_index_impl up to the loop: multiply the initial word, return on the fast
\* path, otherwise compute t
GenIndexImpl ==
    /\ pc = "gen_index_impl"
    /\ \E initial \in Words(smp.w) :
        LET m == wide_multiply(smp.w, initial, smp.ub)
        IN  IF m.lo >= smp.ub
            THEN /\ smp' = [smp EXCEPT !.x = initial, !.lo = m.lo, !.hi = m.hi,
                                       !.result = m.hi]
                 /\ pc' = "returned"
            ELSE /\ smp' = [smp EXCEPT !.x = initial, !.lo = m.lo, !.hi = m.hi,
                                       !.t = rejection_threshold(smp.w, smp.ub)]
                 /\ pc' = "loop"
    /\ UNCHANGED samplerIdle

\* one iteration of the loop that returns
LoopReturn ==
    /\ pc = "loop"
    /\ smp.lo >= smp.t
    /\ smp' = [smp EXCEPT !.result = smp.hi]
    /\ pc' = "returned"
    /\ UNCHANGED samplerIdle

\* one iteration of the loop that rejects and draws a fresh word
LoopRedraw ==
    /\ pc = "loop"
    /\ ~(smp.lo >= smp.t)
    /\ \E rand \in Words(smp.w) :
        LET m == wide_multiply(smp.w, rand, smp.ub)
        IN  smp' = [smp EXCEPT !.x = rand, !.lo = m.lo, !.hi = m.hi]
    /\ UNCHANGED <<pc, samplerIdle>>

NextSampler ==
    \/ GenIndex
    \/ GenIndexImpl
    \/ LoopReturn
    \/ LoopRedraw

SpecSampler == InitSampler /\ [][NextSampler]_vars

\* C5: for every ub >= 1 and every sequence of words, gen_index and the
\* gen_index / gen_index_impl of either width return v with 0 <= v < ub.
C5_IndexBelowBound ==
    pc = "returned" => (0 <= smp.result /\ smp.result < smp.ub)

\* a value returned by the rejection loop after at least one redraw, and the
\* largest value of the range
C5_Witness ==
    /\ pc = "returned"
    /\ smp.ub >= 3
    /\ smp.result = smp.ub - 1
    /\ smp.lo < smp.ub

\* C6: for a word width w and 1 <= ub < 2^w, a drawn word is accepted exactly
\* when the low half lo of x * ub satisfies lo >= t, t = (2^w - ub) mod ub (the
\* fast path never accepts a word with lo < t), and for every v in [0, ub) the
\* number of accepted words with high half v is floor(2^w / ub).
C6_LemireCount ==
    (smp.entry = "impl") =>
        LET w  == smp.w
            ub == smp.ub
            t  == (Pow2(w) - ub) % ub
        IN  /\ (pc = "loop") => (smp.t = t /\ (accepts(w, ub, smp.x) <=> smp.lo >= t))
            /\ (pc = "returned") =>
                  /\ smp.lo >= t
                  /\ accepts(w, ub, smp.x)
                  /\ smp.x \in accepted_words(w, ub, smp.result)
            /\ (pc = "gen_index_impl") =>
                  \A v \in 0..(ub - 1) :
                      Cardinality(accepted_words(w, ub, v)) = Pow2(w) \div ub

\* a word accepted by the test of the loop although the fast path failed, for a
\* bound that does not divide 2^w
C6_Witness ==
    /\ smp.entry = "impl"
    /\ pc = "returned"
    /\ smp.t > 0
    /\ smp.lo < smp.ub
    /\ smp.x > 0

(***************************************************************************)
(* Fisher-Yates, fisher_yates/naive.rs.                                    *)
(***************************************************************************)
\* slice::swap(i, j)
swap(d, i, j) ==
    [p \in DOMAIN d |-> IF p = i + 1 THEN d[j + 1] ELSE IF p = j + 1 THEN d[i + 1] ELSE d[p]]

\* the values gen_index(rng, ub) can return
gen_index_values(ub) == 0..(ub - 1)

\* mutant: the bound of the draw is i
fisher_yates_bound_exclusive(i) == i

\* the bound passed to gen_index at loop index i
fisher_yates_bound(i) == i + 1

RECURSIVE fisher_yates_from(_, _, _)
\* the array after the iterations i, i-1, ... of the loop with the indices js drawn
fisher_yates_from(d, i, js) ==
    IF js = <<>> THEN d
    ELSE fisher_yates_from(swap(d, i, Head(js)), i - 1, Tail(js))

RECURSIVE DrawSequences(_)
\* the sequences of indices the RNG can deliver to the iterations i, i-1, ..., 1
DrawSequences(i) ==
    IF i < 1 THEN {<<>>}
    ELSE {<<j>> \o js : j \in gen_index_values(fisher_yates_bound(i)),
                        js \in DrawSequences(i - 1)}

(***************************************************************************)
(* SpecFisherYates: one call of fisher_yates on an array of distinct       *)
(* elements, one action per iteration of its loop.                         *)
(***************************************************************************)
InitFisherYates ==
    /\ \E n \in 0..MaxFY :
        /\ data = Identity(n)
        /\ fy = [i |-> n - 1, draws |-> <<>>]
    /\ orig = [data |-> data, buckets |-> <<>>]
    /\ pc = "fisher_yates"
    /\ buckets = <<>>
    /\ ops = <<>>
    /\ smp = NoSampler
    /\ stack = <<>>
    /\ cfg = NoConfig
    /\ par = NoPar

\* one iteration: j = gen_index(rng, i + 1); data.swap(i, j)
FisherYatesStep ==
    /\ pc = "fisher_yates"
    /\ fy.i >= 1
    /\ \E j \in gen_index_values(fisher_yates_bound(fy.i)) :
        /\ data' = swap(data, fy.i, j)
        /\ fy' = [i |-> fy.i - 1, draws |-> Append(fy.draws, j)]
    /\ UNCHANGED <<pc, orig, fyIdle>>

\* the range (1..len).rev() is exhausted
FisherYatesReturn ==
    /\ pc = "fisher_yates"
    /\ fy.i < 1
    /\ pc' = "returned"
    /\ UNCHANGED <<data, fy, orig, fyIdle>>

NextFisherYates ==
    \/ FisherYatesStep
    \/ FisherYatesReturn

SpecFisherYates == InitFisherYates /\ [][NextFisherYates]_vars

RECURSIVE Factorial(_)
Factorial(n) == IF n <= 1 THEN 1 ELSE n * Factorial(n - 1)

Arrangements(d) ==
    {q \in [DOMAIN d -> {d[p] : p \in DOMAIN d}] :
        \A a, b \in DOMAIN d : a # b => q[a] # q[b]}
\* C7: fisher_yates swaps a[i] with a[j] for i from n-1 down to 1 with j drawn
\* with bound i+1, so 0 <= j <= i; the n! draw sequences are mapped one-to-one
\* onto the permutations of the input: the arrangement on return is produced by
\* the draws made and by no other draw sequence, and every permutation is
\* produced.
C7_FisherYatesBijection ==
    LET n == Len(orig.data)
        k == Len(fy.draws)
        results == {fisher_yates_from(orig.data, n - 1, js) : js \in DrawSequences(n - 1)}
    IN  /\ fy.i = n - 1 - k
        /\ \A m \in 1..k : 0 <= fy.draws[m] /\ fy.draws[m] <= n - m
        /\ data = fisher_yates_from(orig.data, n - 1, fy.draws)
        /\ (pc = "returned") =>
              /\ fy.draws \in DrawSequences(n - 1)
              /\ \A js \in DrawSequences(n - 1) :
                    fisher_yates_from(orig.data, n - 1, js) = data => js = fy.draws
        /\ (pc = "fisher_yates" /\ k = 0) =>
              /\ Cardinality(DrawSequences(n - 1)) = Factorial(n)
              /\ results = Arrangements(orig.data)

\* a call on at least four elements has returned with the last element in the
\* first slot and a draw that left its element in place
C7_Witness ==
    /\ pc = "returned"
    /\ Len(data) >= 4
    /\ data[1] = Len(data)
    /\ \E m \in 1..Len(fy.draws) : fy.draws[m] = Len(data) - m

(***************************************************************************)
(* The accelerated rough shuffle, rough_shuffle/with_unsafe_algos.rs.      *)
(* A pointer is the offset of a slot of the array.                         *)
(***************************************************************************)
\* the content of a stash lane that has not been written
Uninit == -1

NoRoughShuffle == [pointers |-> <<>>, length_of_shortest_bucket |-> 0, rounds |-> 0,
                   seed_for_stash |-> 0, stash |-> <<>>, read_idx |-> 0]

RECURSIVE MinOf(_)
MinOf(xs) == IF Len(xs) = 1 THEN xs[1] ELSE Min(Head(xs), MinOf(Tail(xs)))

\* BlockBasePointers::new
BlockBasePointers_new(bs) ==
    [NoRoughShuffle EXCEPT
        !.pointers = [i \in 1..Len(bs) |-> bs[i].start + bs[i].np],
        !.length_of_shortest_bucket = MinOf([i \in 1..Len(bs) |-> num_unprocessed(bs[i])])]

\* fetch_and_increment(idx): the pointer of bucket idx, which then advances
fetch_and_increment(pointers, idx) ==
    [pointers |-> [pointers EXCEPT ![idx + 1] = @ + 1], result |-> pointers[idx + 1]]

\* fetch_and_decrement(idx): the pointer of bucket idx, which then steps back
fetch_and_decrement(pointers, idx) ==
    [pointers |-> [pointers EXCEPT ![idx + 1] = @ - 1], result |-> pointers[idx + 1]]

RECURSIVE prefetch(_, _)
\* prefetch: one pointer per bucket index taken from the random word
prefetch(pointers, indices) ==
    IF indices = <<>> THEN [pointers |-> pointers, buffer |-> <<>>]
    ELSE
        LET f    == fetch_and_increment(pointers, Head(indices))
            rest == prefetch(f.pointers, Tail(indices))
        IN  [pointers |-> rest.pointers, buffer |-> <<f.result>> \o rest.buffer]

\* swap_assume_read_from reading and writing the same lane
swap_assume_read_from_same_lane(N, stash, d, elem) ==
    [stash |-> [stash EXCEPT ![N + 1] = d[elem + 1]],
     data  |-> [d EXCEPT ![elem + 1] = stash[N + 1]]]

\* Stash::swap_assume_read_from::<N>(elem): copy elem into lane 1 - N, lane N into elem
swap_assume_read_from(N, stash, d, elem) ==
    [stash |-> [stash EXCEPT ![(1 - N) + 1] = d[elem + 1]],
     data  |-> [d EXCEPT ![elem + 1] = stash[N + 1]]]

RECURSIVE swap_lanes(_, _, _, _)
\* the inner loop of a round: lane 0 with pointers_to_swap0[k], lane 1 with pointers_to_swap1[k]
swap_lanes(stash, d, pointers_to_swap0, pointers_to_swap1) ==
    IF pointers_to_swap0 = <<>> THEN [stash |-> stash, data |-> d]
    ELSE
        LET first  == swap_assume_read_from(0, stash, d, Head(pointers_to_swap0))
            second == swap_assume_read_from(1, first.stash, first.data, Head(pointers_to_swap1))
        IN  swap_lanes(second.stash, second.data,
                       Tail(pointers_to_swap0), Tail(pointers_to_swap1))

\* synchronize_buckets with every offset taken from the start of the first bucket
synchronize_buckets_from_first(rs, bs) ==
    LET nbs == [i \in 1..Len(bs) |-> [bs[i] EXCEPT !.np = rs.pointers[i] - bs[1].start]]
    IN  [buckets |-> nbs,
         ok |-> \A i \in 1..Len(bs) : nbs[i].np <= nbs[i].len,
         length_of_shortest_bucket |->
             Min(rs.length_of_shortest_bucket,
                 MinOf([i \in 1..Len(bs) |-> num_unprocessed(nbs[i])]))]

\* synchronize_buckets: num_processed of every bucket from its pointer
synchronize_buckets(rs, bs) ==
    LET nbs == [i \in 1..Len(bs) |-> [bs[i] EXCEPT !.np = rs.pointers[i] - bs[i].start]]
    IN  [buckets |-> nbs,
         ok |-> \A i \in 1..Len(bs) : nbs[i].np <= nbs[i].len,
         length_of_shortest_bucket |->
             Min(rs.length_of_shortest_bucket,
                 MinOf([i \in 1..Len(bs) |-> num_unprocessed(nbs[i])]))]

(***************************************************************************)
(* Frames of the sequential driver.  A frame is one call of                *)
(* shuffle_adaptive or shuffle on the slice [start, start + len) with the  *)
(* bucket count N of its SeqScatterShuffleImpl; pc is its position.        *)
(***************************************************************************)
\* RandomBitsSource::new
RandomBitsSource_new == [random_bits |-> 0, num_available |-> 0]

Frame(start, len, N) ==
    [pc |-> "shuffle_adaptive", start |-> start, len |-> len, N |-> N,
     buckets |-> <<>>, target_lengths |-> <<>>, i |-> 0, j |-> 0,
     rs |-> NoRoughShuffle, rbs |-> RandomBitsSource_new,
     right_halves |-> <<>>, num_problems |-> 0, num_unprocessed |-> 0,
     max_len |-> 0, max_len_tol |-> 0]

Top == stack[Len(stack)]

SetTop(f) == [stack EXCEPT ![Len(stack)] = f]

\* the innermost call returns to its caller, the outermost to the user
Return ==
    /\ stack' = SubSeq(stack, 1, Len(stack) - 1)
    /\ pc' = IF Len(stack) = 1 THEN "returned" ELSE pc

\* the innermost call stops at a failed assertion
Abort(f) ==
    /\ stack' = SetTop(f)
    /\ pc' = "abort"

Running == pc = "running" /\ stack # <<>>

RECURSIVE ilog2(_)
ilog2(x) == IF x <= 1 THEN 0 ELSE 1 + ilog2(x \div 2)
RECURSIVE fisher_yates_on(_, _, _, _)
\* fisher_yates on the slice from offset start: the iterations i, i-1, ... with
\* the indices js drawn
fisher_yates_on(d, start, i, js) ==
    IF js = <<>> THEN d
    ELSE fisher_yates_on(swap(d, start + i, start + Head(js)), start, i - 1, Tail(js))

\* the unprocessed slices handed to noncontiguous_fisher_yates
unprocessed_ranges(bs) ==
    [k \in 1..Len(bs) |-> [start |-> bs[k].start + bs[k].np, len |-> num_unprocessed(bs[k])]]

RECURSIVE first_position(_, _)
\* the first (i_range, i) the loops of noncontiguous_fisher_yates visit at or
\* below range r; i_range = -1 when the loops are over
first_position(ranges, r) ==
    IF r < 0 THEN [i_range |-> -1, i |-> 0]
    ELSE IF ranges[r + 1].len > (IF r = 0 THEN 1 ELSE 0)
    THEN [i_range |-> r, i |-> ranges[r + 1].len - 1]
    ELSE first_position(ranges, r - 1)

\* the position after (i_range, i)
next_position(ranges, i_range, i) ==
    IF i - 1 >= (IF i_range = 0 THEN 1 ELSE 0)
    THEN [i_range |-> i_range, i |-> i - 1]
    ELSE first_position(ranges, i_range - 1)

\* max_len over the ranges 0..i_range
max_len(ranges, i_range) ==
    CHOOSE m \in {ranges[k].len : k \in 1..(i_range + 1)} :
        \A k \in 1..(i_range + 1) : ranges[k].len <= m

(***************************************************************************)
(* The steps of rough_shuffle on the frame f of the call that runs it and  *)
(* the array d.  Each step names the slots it touches.                     *)
(***************************************************************************)
\* rough_shuffle (mod.rs): the accelerated variant first when the build has it
rough_shuffle_entry(f, bs, unsafe_algos) ==
    [f EXCEPT !.buckets = bs,
              !.pc = IF unsafe_algos THEN "accelerated" ELSE "naive",
              !.rs = IF unsafe_algos THEN BlockBasePointers_new(bs) ELSE NoRoughShuffle]

\* RoughShuffle::rough_shuffle, the head of the loop
with_unsafe_algos_loop(f, d) ==
    LET rounds == (f.rs.length_of_shortest_bucket \div 2) \div SwapsPerRound
        p      == fetch_and_increment(f.rs.pointers, 0)
    IN  IF rounds <= 1
        THEN [frame |-> [f EXCEPT !.pc = "naive", !.rs = NoRoughShuffle], touched |-> {}]
        ELSE [frame |-> [f EXCEPT !.pc = "round",
                                  !.rs.pointers = p.pointers,
                                  !.rs.rounds = rounds,
                                  !.rs.seed_for_stash = p.result,
                                  !.rs.stash = <<d[p.result + 1], Uninit>>,
                                  !.rs.read_idx = 0],
              touched |-> {p.result}]

\* RoughShuffle::rough_shuffle, one round with the bucket indices rand0 and rand1
\* of its two prefetches
with_unsafe_algos_round(f, d, rand0, rand1) ==
    LET pointers_to_swap0 == prefetch(f.rs.pointers, rand0)
        pointers_to_swap1 == prefetch(pointers_to_swap0.pointers, rand1)
        touched == {pointers_to_swap0.buffer[k] : k \in 1..SwapsPerRound}
                       \cup {pointers_to_swap1.buffer[k] : k \in 1..SwapsPerRound}
        inside  == \A q \in touched : q < Len(d)
        swapped == swap_lanes(f.rs.stash, d, pointers_to_swap0.buffer, pointers_to_swap1.buffer)
    IN  [inside  |-> inside,
         touched |-> touched,
         data    |-> IF inside THEN swapped.data ELSE d,
         frame   |-> IF inside
                     THEN [f EXCEPT !.rs.pointers = pointers_to_swap1.pointers,
                                    !.rs.stash = swapped.stash,
                                    !.rs.rounds = @ - 1]
                     ELSE f]

\* the drain without the copy into the seed slot
with_unsafe_algos_drain_without_copy(f, d) ==
    LET p            == fetch_and_decrement(f.rs.pointers, 0)
        current_base == p.result
        rs           == [f.rs EXCEPT !.pointers = p.pointers]
        sync         == synchronize_buckets(rs, f.buckets)
        inside       == current_base < Len(d)
    IN  [inside  |-> inside,
         ok      |-> sync.ok,
         touched |-> {f.rs.seed_for_stash, current_base},
         data    |-> IF inside
                     THEN [d EXCEPT ![current_base + 1] = f.rs.stash[f.rs.read_idx + 1]]
                     ELSE d,
         frame   |-> [f EXCEPT !.pc = "accelerated",
                               !.buckets = sync.buckets,
                               !.rs = [NoRoughShuffle EXCEPT
                                          !.pointers = rs.pointers,
                                          !.length_of_shortest_bucket =
                                              sync.length_of_shortest_bucket]]]

\* RoughShuffle::rough_shuffle, after the rounds
with_unsafe_algos_drain(f, d) ==
    LET p            == fetch_and_decrement(f.rs.pointers, 0)
        current_base == p.result
        rs           == [f.rs EXCEPT !.pointers = p.pointers]
        sync         == synchronize_buckets(rs, f.buckets)
        inside       == current_base < Len(d)
    IN  [inside  |-> inside,
         ok      |-> sync.ok,
         touched |-> {f.rs.seed_for_stash, current_base},
         data    |-> IF inside
                     THEN [d EXCEPT ![f.rs.seed_for_stash + 1] = d[current_base + 1],
                                    ![current_base + 1] = f.rs.stash[f.rs.read_idx + 1]]
                     ELSE d,
         frame   |-> [f EXCEPT !.pc = "accelerated",
                               !.buckets = sync.buckets,
                               !.rs = [NoRoughShuffle EXCEPT
                                          !.pointers = rs.pointers,
                                          !.length_of_shortest_bucket =
                                              sync.length_of_shortest_bucket]]]

\* naive::rough_shuffle: return at once when a bucket is fully processed
naive_rough_shuffle(f) ==
    [f EXCEPT !.pc = IF \E k \in 1..f.N : is_fully_processed(f.buckets[k])
                     THEN "rough_done" ELSE "naive_loop"]

\* rough_shuffle_impl without set_num_processed: the partner is never processed
rough_shuffle_impl_without_progress(f, d, partner_bucket_idx) ==
    LET active  == f.buckets[1]
        k       == IF partner_bucket_idx < f.N - 1 THEN partner_bucket_idx + 2 ELSE 1
        partner == f.buckets[k]
    IN  [data    |-> IF k = 1 THEN d
                     ELSE swap(d, active.start + active.np, partner.start + partner.np),
         touched |-> IF k = 1 THEN {active.start + active.np}
                     ELSE {active.start + active.np, partner.start + partner.np},
         frame   |-> f]

\* rough_shuffle_impl returning only when the active bucket is fully processed
rough_shuffle_impl_until_active_full(f, d, partner_bucket_idx) ==
    LET active  == f.buckets[1]
        k       == IF partner_bucket_idx < f.N - 1 THEN partner_bucket_idx + 2 ELSE 1
        partner == f.buckets[k]
        bs      == [f.buckets EXCEPT ![k].np = @ + 1]
    IN  [data    |-> IF k = 1 THEN d
                     ELSE swap(d, active.start + active.np, partner.start + partner.np),
         touched |-> IF k = 1 THEN {active.start + active.np}
                     ELSE {active.start + active.np, partner.start + partner.np},
         frame   |-> [f EXCEPT !.buckets = bs,
                               !.pc = IF is_fully_processed(bs[1])
                                      THEN "rough_done" ELSE "naive_loop"]]

\* one iteration of rough_shuffle_impl with the drawn partner_bucket_idx: swap
\* the active element with the first unprocessed element of the partner and
\* process it, or process the active element; return when the processed bucket
\* has no unprocessed element left
rough_shuffle_impl(f, d, partner_bucket_idx) ==
    LET active  == f.buckets[1]
        k       == IF partner_bucket_idx < f.N - 1 THEN partner_bucket_idx + 2 ELSE 1
        partner == f.buckets[k]
        bs      == [f.buckets EXCEPT ![k].np = @ + 1]
    IN  [data    |-> IF k = 1 THEN d
                     ELSE swap(d, active.start + active.np, partner.start + partner.np),
         touched |-> IF k = 1 THEN {active.start + active.np}
                     ELSE {active.start + active.np, partner.start + partner.np},
         frame   |-> [f EXCEPT !.buckets = bs,
                               !.pc = IF is_fully_processed(bs[k])
                                      THEN "rough_done" ELSE "naive_loop"]]

\* the innermost call, left in state f with the array d, calls shuffle_adaptive
\* on a slice: the base case when num_buckets <= 2, otherwise a new frame of
\* shuffle with NUM_BUCKETS buckets or with the power of two below num_buckets
Call(f, d, start, len) ==
    LET num_buckets == (len \div cfg.base_case_size) * 2
    IN  IF num_buckets <= 2
        THEN /\ \E js \in DrawSequences(len - 1) :
                   data' = fisher_yates_on(d, start, len - 1, js)
             /\ stack' = SetTop(f)
             /\ pc' = pc
        ELSE /\ data' = d
             /\ IF Len(stack) >= MaxDepth
                THEN /\ stack' = SetTop(f)
                     /\ pc' = "stack_overflow"
                ELSE /\ stack' = Append(SetTop(f),
                            [Frame(start, len,
                                   IF num_buckets >= f.N THEN f.N
                                   ELSE Pow2(ilog2(num_buckets)))
                             EXCEPT !.pc = "shuffle"])
                     /\ pc' = pc

(***************************************************************************)
(* SpecSeq: seq_scatter_shuffle on an array of distinct elements, for each *)
(* base case size and bucket count of the configuration and each build.    *)
(***************************************************************************)
BaseCaseSizes == {1, 2}
NumBucketsChoices == {2, 4}

\* the arrays handed to a driver.  The drivers move elements and never look at
\* them, so the run on an array of distinct elements projects to a run on the
\* array that marks one of them, and an element lost or duplicated shows in one
\* of these projections.
InputArrays(n) == {[p \in 1..n |-> IF p = m THEN 1 ELSE 0] : m \in 1..n}

Scenario(entry, n, base, N, ua, disable) ==
    [entry |-> entry, n |-> n, base_case_size |-> base, N |-> N, unsafe_algos |-> ua,
     seq_disable_recursion |-> disable]

\* every call on a short array, and two calls on longer ones: the shortest array
\* on which the accelerated rough shuffle runs its rounds, and four buckets of
\* more than one element
SeqScenarios ==
    {Scenario(entry, n, base, N, ua, disable) :
        entry \in {"shuffle_adaptive", "shuffle"},
        n \in 0..MaxN, base \in BaseCaseSizes, N \in NumBucketsChoices,
        ua \in BOOLEAN, disable \in BOOLEAN}
    \cup {Scenario("shuffle_adaptive", 8 * SwapsPerRound, 2, 2, TRUE, FALSE),
          Scenario("shuffle_adaptive", 6, 3, 4, FALSE, FALSE)}

InitSeq ==
    /\ \E sc \in SeqScenarios :
        /\ data \in InputArrays(sc.n)
        /\ cfg = [base_case_size |-> sc.base_case_size, unsafe_algos |-> sc.unsafe_algos,
                  seq_disable_recursion |-> sc.seq_disable_recursion]
        /\ stack = <<[Frame(0, sc.n, sc.N) EXCEPT !.pc = sc.entry]>>
    /\ orig = [data |-> data, buckets |-> <<>>]
    /\ pc = "running"
    /\ buckets = <<>>
    /\ ops = <<>>
    /\ smp = NoSampler
    /\ fy = NoFisherYates
    /\ par = NoPar

\* seq_base_case_shuffle: fisher_yates on the slice of the innermost call
BaseCase ==
    /\ \E js \in DrawSequences(Top.len - 1) :
          data' = fisher_yates_on(data, Top.start, Top.len - 1, js)
    /\ Return

\* shuffle_adaptive with num_buckets <= 2
ShuffleAdaptiveBaseCase ==
    /\ Running /\ Top.pc = "shuffle_adaptive"
    /\ (Top.len \div cfg.base_case_size) * 2 <= 2
    /\ BaseCase
    /\ UNCHANGED <<orig, cfg, seqIdle>>

\* shuffle_adaptive with num_buckets > 2: shuffle with NUM_BUCKETS buckets, or
\* with the power of two below num_buckets
ShuffleAdaptive ==
    /\ Running /\ Top.pc = "shuffle_adaptive"
    /\ LET num_buckets == (Top.len \div cfg.base_case_size) * 2
       IN  /\ num_buckets > 2
           /\ stack' = SetTop([Top EXCEPT
                  !.pc = "shuffle",
                  !.N = IF num_buckets >= Top.N THEN Top.N ELSE Pow2(ilog2(num_buckets))])
    /\ UNCHANGED <<data, pc, orig, cfg, seqIdle>>

\* shuffle on a slice of at most the base case size
ShuffleBaseCase ==
    /\ Running /\ Top.pc = "shuffle"
    /\ Top.len <= cfg.base_case_size
    /\ BaseCase
    /\ UNCHANGED <<orig, cfg, seqIdle>>

\* shuffle: split the slice into buckets and enter rough_shuffle
ShuffleSplit ==
    /\ Running /\ Top.pc = "shuffle"
    /\ Top.len > cfg.base_case_size
    /\ LET bs == split_slice_into_equally_sized_buckets(Top.start, Top.len, Top.N)
       IN  stack' = SetTop(rough_shuffle_entry(Top, bs, cfg.unsafe_algos))
    /\ UNCHANGED <<data, pc, orig, cfg, seqIdle>>

\* the head of the loop of the accelerated rough shuffle: leave it for the naive
\* one when rounds <= 1, otherwise seed the stash from bucket 0
AcceleratedLoop ==
    /\ Running /\ Top.pc = "accelerated"
    /\ stack' = SetTop(with_unsafe_algos_loop(Top, data).frame)
    /\ UNCHANGED <<data, pc, orig, cfg, seqIdle>>

\* one round: two prefetches of SWAPS pointers each, then the swaps through the
\* two lanes of the stash
AcceleratedRound ==
    /\ Running /\ Top.pc = "round"
    /\ Top.rs.rounds > 0
    /\ \E rand0, rand1 \in [1..SwapsPerRound -> 0..(Top.N - 1)] :
        LET r == with_unsafe_algos_round(Top, data, rand0, rand1)
        IN  IF ~r.inside
            THEN /\ pc' = "undefined"
                 /\ UNCHANGED <<data, stack>>
            ELSE /\ data' = r.data
                 /\ stack' = SetTop(r.frame)
                 /\ pc' = pc
    /\ UNCHANGED <<orig, cfg, seqIdle>>

\* after the rounds: the slot at the pointer of bucket 0 is copied to the seed
\* slot and takes the element of the stash; then synchronize_buckets
AcceleratedDrain ==
    /\ Running /\ Top.pc = "round"
    /\ Top.rs.rounds = 0
    /\ LET r == with_unsafe_algos_drain(Top, data)
       IN  IF ~r.inside
           THEN /\ pc' = "undefined"
                /\ UNCHANGED <<data, stack>>
           ELSE /\ data' = r.data
                /\ IF r.ok
                   THEN stack' = SetTop(r.frame) /\ pc' = pc
                   ELSE Abort(Top)
    /\ UNCHANGED <<orig, cfg, seqIdle>>

\* the naive rough shuffle returns at once when a bucket is fully processed
Naive ==
    /\ Running /\ Top.pc = "naive"
    /\ stack' = SetTop(naive_rough_shuffle(Top))
    /\ UNCHANGED <<data, pc, orig, cfg, seqIdle>>

\* one iteration of rough_shuffle_impl, for every bucket index the random bits
\* can select
NaiveLoop ==
    /\ Running /\ Top.pc = "naive_loop"
    /\ \E partner_bucket_idx \in 0..(Top.N - 1) :
        LET r == rough_shuffle_impl(Top, data, partner_bucket_idx)
        IN  /\ data' = r.data
            /\ stack' = SetTop(r.frame)
    /\ UNCHANGED <<pc, orig, cfg, seqIdle>>

\* sample_final_bucket_size: num_processed plus a multinomial share of the stash
SampleFinalBucketSize ==
    /\ Running /\ Top.pc = "rough_done"
    /\ LET num_unprocessed_sum ==
               SumSeq([k \in 1..Top.N |-> num_unprocessed(Top.buckets[k])])
       IN  \E additional \in multinomial(Top.N, num_unprocessed_sum) :
               stack' = SetTop([Top EXCEPT
                   !.pc = "move",
                   !.target_lengths = [k \in 1..Top.N |-> Top.buckets[k].np + additional[k]]])
    /\ UNCHANGED <<data, pc, orig, cfg, seqIdle>>

\* move_buckets_to_fit_target_len
MoveBucketsToFitTargetLen ==
    /\ Running /\ Top.pc = "move"
    /\ LET m == move_buckets_to_fit_target_len(data, Top.buckets, Top.target_lengths)
       IN  /\ data' = m.data
           /\ IF m.ok
              THEN /\ stack' = SetTop([Top EXCEPT !.pc = "shuffle_stashes",
                                                  !.buckets = m.buckets,
                                                  !.target_lengths = <<>>])
                   /\ pc' = pc
              ELSE Abort(Top)
    /\ UNCHANGED <<orig, cfg, seqIdle>>
\* data_mut that hands out every bucket from the start of the first one
data_mut_from_first(bs) ==
    [k \in 1..Len(bs) |-> [start |-> bs[1].start,
                           len   |-> bs[k].start + bs[k].len - bs[1].start]]

\* the slices the loop at the end of shuffle iterates over: data_mut() of every
\* bucket; the loop reads nothing else of the buckets
data_mut(bs) == [k \in 1..Len(bs) |-> [start |-> bs[k].start, len |-> bs[k].len]]

stash_size(bs) == SumSeq([k \in 1..Len(bs) |-> num_unprocessed(bs[k])])

\* shuffle_stashes when the stashes fit the last bucket: compact_ranges, then
\* the recursion on the last stash_size slots of the last bucket
ShuffleStashesCompact ==
    /\ Running /\ Top.pc = "shuffle_stashes"
    /\ stash_size(Top.buckets) <= Top.buckets[Top.N].len
    /\ LET c    == compact_ranges(data, Top.buckets)
           last == Top.buckets[Top.N]
           size == stash_size(Top.buckets)
       IN  IF c.ok
           THEN Call([Top EXCEPT !.pc = "stash_recursed"], c.data,
                     last.start + last.len - size, size)
           ELSE data' = c.data /\ Abort(Top)
    /\ UNCHANGED <<orig, cfg, seqIdle>>

\* shuffle_stashes after the recursion: compact_ranges a second time
ShuffleStashesUncompact ==
    /\ Running /\ Top.pc = "stash_recursed"
    /\ LET c == compact_ranges(data, Top.buckets)
       IN  /\ data' = c.data
           /\ IF c.ok
              THEN /\ stack' = SetTop([Top EXCEPT !.pc = "recurse",
                                                  !.buckets = data_mut(Top.buckets)])
                   /\ pc' = pc
              ELSE Abort(Top)
    /\ UNCHANGED <<orig, cfg, seqIdle>>

\* shuffle_stashes when the stashes do not fit the last bucket: enter
\* noncontiguous_fisher_yates on the unprocessed slices
ShuffleStashesNoncontiguous ==
    /\ Running /\ Top.pc = "shuffle_stashes"
    /\ stash_size(Top.buckets) > Top.buckets[Top.N].len
    /\ LET first == first_position(unprocessed_ranges(Top.buckets), Top.N - 1)
       IN  stack' = SetTop([Top EXCEPT !.pc = "noncontiguous",
                                       !.i = first.i_range, !.j = first.i])
    /\ UNCHANGED <<data, pc, orig, cfg, seqIdle>>

\* one accepted draw of noncontiguous_fisher_yates at (i_range, i): j_range and
\* j are drawn until j < ranges[j_range].len(), then the two slots are swapped
NoncontiguousStep ==
    /\ Running /\ Top.pc = "noncontiguous"
    /\ Top.i >= 0
    /\ LET ranges  == unprocessed_ranges(Top.buckets)
           i_range == Top.i
           i       == Top.j
           ub      == IF i_range = 0 THEN i ELSE max_len(ranges, i_range)
           next    == next_position(ranges, i_range, i)
       IN  \E j_range \in gen_index_values(i_range + 1), j \in gen_index_values(ub + 1) :
               /\ j < ranges[j_range + 1].len
               /\ data' = swap(data, ranges[i_range + 1].start + i,
                                     ranges[j_range + 1].start + j)
               /\ stack' = SetTop([Top EXCEPT !.i = next.i_range, !.j = next.i])
    /\ UNCHANGED <<pc, orig, cfg, seqIdle>>

\* the loops of noncontiguous_fisher_yates are over
NoncontiguousReturn ==
    /\ Running /\ Top.pc = "noncontiguous"
    /\ Top.i < 0
    /\ stack' = SetTop([Top EXCEPT !.pc = "recurse", !.i = 0, !.j = 0,
                                    !.buckets = data_mut(Top.buckets)])
    /\ UNCHANGED <<data, pc, orig, cfg, seqIdle>>

\* the loop over the buckets at the end of shuffle: shuffle_adaptive on the next
\* bucket
Recurse ==
    /\ Running /\ Top.pc = "recurse"
    /\ ~cfg.seq_disable_recursion
    /\ Top.buckets # <<>>
    /\ Call([Top EXCEPT !.buckets = Tail(@)], data,
            Head(Top.buckets).start, Head(Top.buckets).len)
    /\ UNCHANGED <<orig, cfg, seqIdle>>

\* shuffle returns: the recursion is disabled or every bucket has been shuffled
ShuffleReturn ==
    /\ Running /\ Top.pc = "recurse"
    /\ cfg.seq_disable_recursion \/ Top.buckets = <<>>
    /\ Return
    /\ UNCHANGED <<data, orig, cfg, seqIdle>>

NextSeq ==
    \/ ShuffleAdaptiveBaseCase
    \/ ShuffleAdaptive
    \/ ShuffleBaseCase
    \/ ShuffleSplit
    \/ AcceleratedLoop
    \/ AcceleratedRound
    \/ AcceleratedDrain
    \/ Naive
    \/ NaiveLoop
    \/ SampleFinalBucketSize
    \/ MoveBucketsToFitTargetLen
    \/ ShuffleStashesCompact
    \/ ShuffleStashesUncompact
    \/ ShuffleStashesNoncontiguous
    \/ NoncontiguousStep
    \/ NoncontiguousReturn
    \/ Recurse
    \/ ShuffleReturn

SpecSeq == InitSeq /\ [][NextSeq]_vars

SameMultiset(d, e) ==
    /\ Len(d) = Len(e)
    /\ \A x \in {d[p] : p \in DOMAIN d} \cup {e[p] : p \in DOMAIN e} :
          Cardinality({p \in DOMAIN d : d[p] = x}) = Cardinality({p \in DOMAIN e : e[p] = x})

\* C1: when the sequential driver returns, the array holds exactly the multiset
\* of elements it held on entry.
C1_SeqPreservesMultiset ==
    (pc = "returned") => SameMultiset(data, orig.data)

\* a call that ran the rounds of the accelerated rough shuffle on an array longer
\* than the short ones has returned with the array rearranged
C1_Witness ==
    /\ pc = "returned"
    /\ cfg.unsafe_algos
    /\ Len(data) > MaxN
    /\ data # orig.data

\* the slots of the range of a call
RangeOf(f) == f.start..(f.start + f.len - 1)

\* C27 as stated: every call of the driver in progress works on a range
\* strictly shorter than that of the level that made it
C27_StrictlyShorterRanges ==
    \A k \in 2..Len(stack) : stack[k].len < stack[k - 1].len

\* the buckets a level is about to recurse on lie side by side inside its range
RecursionOnBuckets ==
    (Running /\ Top.pc = "recurse") =>
        /\ \A k \in 1..Len(Top.buckets) :
              RangeOf(Top.buckets[k]) \subseteq RangeOf(Top)
        /\ \A k \in 1..(Len(Top.buckets) - 1) :
              Top.buckets[k].start + Top.buckets[k].len <= Top.buckets[k + 1].start

\* the stash a level is about to recurse on holds the elements of its range that
\* no bucket has processed
RecursionOnStash ==
    (Running /\ Top.pc = "shuffle_stashes") =>
        stash_size(Top.buckets) + SumSeq([k \in 1..Top.N |-> Top.buckets[k].np]) = Top.len

\* C27: every call of the driver works on a part of the range of the level that
\* made it.  The buckets of a level share its range without overlap, so the call
\* on a bucket has a strictly shorter range unless the target-length draw gave
\* the whole range to that bucket; the stash lacks the processed elements, so
\* the call on the stash has a strictly shorter range unless the rough shuffle
\* processed no element
C27_RangesWithinCaller ==
    /\ \A k \in 2..Len(stack) : RangeOf(stack[k]) \subseteq RangeOf(stack[k - 1])
    /\ \A k \in 2..Len(stack) :
          stack[k].len = stack[k - 1].len =>
              \/ /\ stack[k - 1].pc = "recurse"
                 /\ \A i \in 1..Len(stack[k - 1].buckets) : stack[k - 1].buckets[i].len = 0
              \/ /\ stack[k - 1].pc = "stash_recursed"
                 /\ \A i \in 1..stack[k - 1].N : stack[k - 1].buckets[i].np = 0
    /\ RecursionOnBuckets
    /\ RecursionOnStash

\* a level that gave its first bucket two or more elements, and not the whole
\* range, is in the call on that bucket
C27_Witness ==
    /\ pc = "running" /\ Len(stack) = 2
    /\ stack[1].pc = "recurse" /\ Len(stack[1].buckets) = stack[1].N - 1
    /\ stack[2].len >= 2 /\ stack[2].len < stack[1].len

(***************************************************************************)
(* Random sources of the parallel driver.  The driver takes any seedable   *)
(* source; the sources here are counters in the manner of                  *)
(* rand::rngs::mock::StepRng, one for every first word and every increment,*)
(* with words of RngBits bits.  Given its state a source delivers one word *)
(* sequence, whatever the schedule.                                        *)
(***************************************************************************)
RngBits == 4

Rng(s, inc) == [s |-> s, inc |-> inc]

\* rng.gen(): the next word of the source
gen(rng) == [word |-> rng.s, rng |-> [rng EXCEPT !.s = (@ + rng.inc) % Pow2(RngBits)]]

\* gen_index on this source: gen_index_impl draws words until it accepts one; on
\* a source none of whose words it accepts the loop never ends (ok = FALSE)
gen_index(rng, ub) ==
    LET word(k) == (rng.s + k * rng.inc) % Pow2(RngBits)
        hits    == {k \in 0..(Pow2(RngBits) - 1) : accepts(RngBits, ub, word(k))}
        k0      == CHOOSE k \in hits : \A h \in hits : k <= h
    IN  IF hits = {}
        THEN [ok |-> FALSE, value |-> 0, rng |-> rng]
        ELSE [ok |-> TRUE, value |-> wide_multiply(RngBits, word(k0), ub).hi,
              rng |-> [rng EXCEPT !.s = (@ + (k0 + 1) * rng.inc) % Pow2(RngBits)]]

\* RandomBitsSource::gen_const_bits::<n>: refill from the source when fewer than
\* n bits are left, then hand out the n lowest bits
gen_const_bits(rbs, rng, n) ==
    LET g      == gen(rng)
        refill == rbs.num_available < n
        bits   == IF refill THEN g.word ELSE rbs.random_bits
        avail  == IF refill THEN RngBits ELSE rbs.num_available
    IN  [value |-> bits % Pow2(n),
         rbs   |-> [random_bits |-> bits \div Pow2(n), num_available |-> avail - n],
         rng   |-> IF refill THEN g.rng ELSE rng]

\* the bucket indices prefetch takes from one word: (rand >> (k * LOG_N)) & mask
prefetch_indices(word, N) ==
    [k \in 1..SwapsPerRound |-> (word \div Pow2((k - 1) * ilog2(N))) % N]

\* rand_distr::Binomial::new(num_balls, 1 / remaining_bins).sample(rng): all the
\* balls when the probability is 1, otherwise a count taken from the next word
binomial_sample(rng, num_balls, remaining_bins) ==
    IF remaining_bins = 1 THEN [value |-> num_balls, rng |-> rng]
    ELSE LET g == gen(rng) IN [value |-> g.word % (num_balls + 1), rng |-> g.rng]

RECURSIVE multinomial_on(_, _, _)
\* multinomial of sample_final_bucket_size on this source
multinomial_on(rng, num_bins, num_balls) ==
    IF num_bins = 0 THEN [values |-> <<>>, rng |-> rng]
    ELSE LET b    == binomial_sample(rng, num_balls, num_bins)
             rest == multinomial_on(b.rng, num_bins - 1, num_balls - b.value)
         IN  [values |-> <<b.value>> \o rest.values, rng |-> rest.rng]

\* seed_new_rng: the seed of the child is drawn from the parent
seed_new_rng(base) ==
    LET g == gen(base) IN [child |-> Rng(g.word, base.inc), base |-> g.rng]

(***************************************************************************)
(* The parallel driver, bucketing/parallel.rs.  A task is a closure of a   *)
(* rayon::join (the root task is the call of par_scatter_shuffle): its     *)
(* identifier is the path of closures that leads to it, 0 for the first    *)
(* and 1 for the second closure of a join.  A task has the stack of its    *)
(* calls in progress, the random source it was handed and the slots of the *)
(* slices it was handed.  The task that called join waits until both of    *)
(* its closures have returned.                                             *)
(***************************************************************************)
MaxForks == 3      \* joins that can be nested

Root == <<>>

Live == DOMAIN par.tasks

Parent(t) == SubSeq(t, 1, Len(t) - 1)

HasChildren(t) == Append(t, 0) \in Live \/ Append(t, 1) \in Live

Runnable(t) == pc = "running" /\ t \in Live /\ ~HasChildren(t)

TaskTop(t) == par.tasks[t].stack[Len(par.tasks[t].stack)]

TaskRng(t) == par.rngs[par.tasks[t].rng]

Slots(start, len) == start..(start + len - 1)

BucketSlots(bs) == UNION {Slots(bs[k].start, bs[k].len) : k \in 1..Len(bs)}

\* a closure of a join (or the call by the caller of the driver): its calls, the
\* source it was given, the slots of the slices it was given and the slots it
\* and the closures it joined have accessed so far
Task(f, rng, foot) == [stack |-> <<f>>, rng |-> rng, foot |-> foot, accessed |-> {}]

Touch(t, slots) == [task |-> t, slots |-> slots]

\* the task t leaves its innermost call in the state f and its source in the
\* state rng, having touched the slots
Advanced(t, f, rng, slots) ==
    [par EXCEPT !.tasks[t].stack[Len(par.tasks[t].stack)] = f,
                !.tasks[t].accessed = @ \cup slots,
                !.rngs[par.tasks[t].rng] = rng,
                !.last = Touch(t, slots)]

\* the task t leaves its innermost call in the state f and calls g
Called(t, f, g, rng, slots) ==
    [par EXCEPT !.tasks[t].stack = Append(SubSeq(@, 1, Len(@) - 1), f) \o <<g>>,
                !.tasks[t].accessed = @ \cup slots,
                !.rngs[par.tasks[t].rng] = rng,
                !.last = Touch(t, slots)]

\* the innermost call of the task t returns; result is the bucket set it leaves
\* to its caller through the &mut it was given (<<>> when it leaves none).  When
\* it was the only call of the task, the closure has returned: the task is gone,
\* and so is the source right_rng of a second closure
Returned(t, rng, result) ==
    LET st    == par.tasks[t].stack
        rid   == par.tasks[t].rng
        rngs  == [par.rngs EXCEPT ![rid] = rng]
        given(f, field) ==
            IF result = <<>> THEN f
            ELSE IF field = 0 THEN [f EXCEPT !.buckets = result]
            ELSE [f EXCEPT !.right_halves = result]
    IN  IF Len(st) > 1
        THEN [par EXCEPT
                 !.tasks[t].stack = Append(SubSeq(st, 1, Len(st) - 2), given(st[Len(st) - 1], 0)),
                 !.rngs = rngs,
                 !.last = Touch(t, {})]
        ELSE IF t = Root
        THEN [par EXCEPT !.tasks = <<>>, !.rngs = rngs, !.last = Touch(t, {})]
        ELSE
            LET p   == Parent(t)
                pst == par.tasks[p].stack
                up  == [par.tasks EXCEPT
                           ![p].stack[Len(pst)] = given(pst[Len(pst)], t[Len(t)]),
                           ![p].accessed = @ \cup par.tasks[t].accessed]
            IN  [par EXCEPT
                    !.tasks = [u \in Live \ {t} |-> up[u]],
                    !.rngs  = [r \in DOMAIN rngs \ (IF rid = t THEN {t} ELSE {}) |-> rngs[r]],
                    !.last  = Touch(t, {})]

\* pc after a call returned: the root task returns to the caller of the driver
ReturnedPc(t) == IF t = Root /\ Len(par.tasks[t].stack) = 1 THEN "returned" ELSE pc

\* DefaultConfiguration::par_number_of_subproblems
par_number_of_subproblems(n) == Min(Max(n \div cfg.par_base_case_size, 1), 2040)

\* split_in_half with the two halves rounded differently: the bucket keeps
\* (len + 1) / 2 slots, the bucket returned starts after len / 2
split_each_bucket_in_half_rounded_up(bs) ==
    [left  |-> [k \in 1..Len(bs) |-> Bucket(bs[k].start, (bs[k].len + 1) \div 2, 0)],
     right |-> [k \in 1..Len(bs) |->
                   Bucket(bs[k].start + bs[k].len \div 2, bs[k].len - bs[k].len \div 2, 0)]]

\* Bucket::split_in_half of every bucket: the bucket keeps its first len / 2
\* slots, the rest is the bucket returned
split_each_bucket_in_half(bs) ==
    [left  |-> [k \in 1..Len(bs) |-> Bucket(bs[k].start, bs[k].len \div 2, 0)],
     right |-> [k \in 1..Len(bs) |->
                   Bucket(bs[k].start + bs[k].len \div 2, bs[k].len - bs[k].len \div 2, 0)]]

RECURSIVE merge_halves(_, _, _, _)
\* the loop after the join: bucket k of the left halves takes its right neighbor
merge_halves(d, left, right, k) ==
    IF k > Len(left) THEN Step(d, left, TRUE)
    ELSE LET o == merge_with_right_neighbor(d, left[k], right[k])
         IN  IF ~o.ok THEN Step(o.data, left, FALSE)
             ELSE merge_halves(o.data, [left EXCEPT ![k] = o.left], right, k + 1)

(***************************************************************************)
(* SpecPar: ParScatterShuffleImpl::shuffle on an array of distinct         *)
(* elements, run twice from the same array with the same source.           *)
(***************************************************************************)
RngSeeds == {0, 5}

RngIncrements == {0, 1, 2}

ParScenario(n, base, N, ua, disable) ==
    [n |-> n, par_base_case_size |-> base, N |-> N, unsafe_algos |-> ua,
     par_disable_recursion |-> disable]

ParScenarios ==
    {ParScenario(n, base, 2, FALSE, disable) :
        n \in 0..MaxN, base \in BaseCaseSizes, disable \in BOOLEAN}
    \cup {ParScenario(MaxN, 2, 4, FALSE, disable) : disable \in BOOLEAN}

\* a build with the accelerated rough shuffle, two subproblems whose halves
\* are long enough for its rounds
AcceleratedScenario == ParScenario(16 * SwapsPerRound, 8 * SwapsPerRound, 2, TRUE, TRUE)

ParInputs ==
    {[sc |-> sc, rng |-> Rng(s, inc)] :
        sc \in ParScenarios, s \in RngSeeds, inc \in RngIncrements}
    \cup {[sc |-> AcceleratedScenario, rng |-> Rng(s, 2)] : s \in {0, 1}}

ParFrame(label, start, len) == [Frame(start, len, cfg.N) EXCEPT !.pc = label]

InitPar ==
    /\ \E in \in ParInputs :
        /\ data = Identity(in.sc.n)
        /\ cfg = [par_base_case_size |-> in.sc.par_base_case_size, N |-> in.sc.N,
                  unsafe_algos |-> in.sc.unsafe_algos,
                  par_disable_recursion |-> in.sc.par_disable_recursion]
        /\ par = [run |-> 1, first |-> <<>>, seed |-> in.rng]
                    @@ [tasks |-> [t \in {Root} |->
                                      Task([Frame(0, in.sc.n, in.sc.N) EXCEPT !.pc = "par_shuffle"],
                                           Root, Slots(0, in.sc.n))],
                        rngs  |-> [t \in {Root} |-> in.rng],
                        last  |-> Touch(Root, {})]
    /\ orig = [data |-> data, buckets |-> <<>>]
    /\ pc = "running"
    /\ stack = <<>>
    /\ buckets = <<>>
    /\ ops = <<>>
    /\ smp = NoSampler
    /\ fy = NoFisherYates

\* shuffle on a slice of at most par_base_case_size: fisher_yates
ParShuffleBaseCase ==
    /\ \E t \in Live :
        /\ Runnable(t)
        /\ LET f == TaskTop(t)
           IN  /\ f.pc = "par_shuffle"
               /\ f.len <= cfg.par_base_case_size
               /\ par' = Advanced(t, [f EXCEPT !.pc = "fisher_yates", !.i = f.len - 1],
                                  TaskRng(t), {})
    /\ UNCHANGED <<data, pc, orig, cfg, parIdle>>

\* one iteration of fisher_yates; the loop of gen_index_impl does not end on a
\* source that delivers no word it accepts
ParFisherYatesStep ==
    /\ \E t \in Live :
        /\ Runnable(t)
        /\ LET f == TaskTop(t)
               g == gen_index(TaskRng(t), fisher_yates_bound(f.i))
           IN  /\ f.pc = "fisher_yates"
               /\ f.i >= 1
               /\ IF ~g.ok
                  THEN pc' = "spinning" /\ UNCHANGED <<data, par>>
                  ELSE /\ data' = swap(data, f.start + f.i, f.start + g.value)
                       /\ par' = Advanced(t, [f EXCEPT !.i = @ - 1], g.rng,
                                          {f.start + f.i, f.start + g.value})
                       /\ pc' = pc
    /\ UNCHANGED <<orig, cfg, parIdle>>

ParFisherYatesReturn ==
    /\ \E t \in Live :
        /\ Runnable(t)
        /\ TaskTop(t).pc = "fisher_yates"
        /\ TaskTop(t).i < 1
        /\ par' = Returned(t, TaskRng(t), <<>>)
        /\ pc' = ReturnedPc(t)
    /\ UNCHANGED <<data, orig, cfg, parIdle>>

\* shuffle on a longer slice: split it into buckets and call invoke_rough_shuffle
ParShuffleSplit ==
    /\ \E t \in Live :
        /\ Runnable(t)
        /\ LET f  == TaskTop(t)
               bs == split_slice_into_equally_sized_buckets(f.start, f.len, f.N)
               g  == [ParFrame("invoke_rough_shuffle", f.start, f.len) EXCEPT
                         !.buckets = bs,
                         !.num_problems = par_number_of_subproblems(f.len)]
           IN  /\ f.pc = "par_shuffle"
               /\ f.len > cfg.par_base_case_size
               /\ IF Len(par.tasks[t].stack) >= MaxDepth
                  THEN pc' = "stack_overflow" /\ UNCHANGED par
                  ELSE /\ par' = Called(t, [f EXCEPT !.pc = "shuffle_stashes", !.buckets = bs],
                                        g, TaskRng(t), {})
                       /\ pc' = pc
    /\ UNCHANGED <<data, orig, cfg, parIdle>>

\* invoke_rough_shuffle with one subproblem: rough_shuffle
ParInvokeRoughShuffleLeaf ==
    /\ \E t \in Live :
        /\ Runnable(t)
        /\ LET f == TaskTop(t)
           IN  /\ f.pc = "invoke_rough_shuffle"
               /\ f.num_problems = 1
               /\ par' = Advanced(t, rough_shuffle_entry(f, f.buckets, cfg.unsafe_algos),
                                  TaskRng(t), {})
    /\ UNCHANGED <<data, pc, orig, cfg, parIdle>>

\* invoke_rough_shuffle with more subproblems: seed right_rng, split every bucket
\* in half, join the two calls on the halves
ParInvokeRoughShuffleFork ==
    /\ \E t \in Live :
        /\ Runnable(t)
        /\ LET f      == TaskTop(t)
               seeded == seed_new_rng(TaskRng(t))
               halves == split_each_bucket_in_half(f.buckets)
               first  == Append(t, 0)
               second == Append(t, 1)
               call(bs, num_problems) ==
                   [ParFrame("invoke_rough_shuffle", f.start, f.len) EXCEPT
                       !.buckets = bs, !.num_problems = num_problems]
               waiting == Advanced(t, [f EXCEPT !.pc = "join",
                                                !.buckets = halves.left,
                                                !.right_halves = halves.right],
                                   seeded.base, {})
           IN  /\ f.pc = "invoke_rough_shuffle"
               /\ f.num_problems # 1
               /\ IF Len(t) >= MaxForks
                  THEN pc' = "stack_overflow" /\ UNCHANGED par
                  ELSE /\ par' = [waiting EXCEPT
                              !.tasks = [u \in Live \cup {first, second} |->
                                  IF u = first
                                  THEN Task(call(halves.left, f.num_problems \div 2),
                                            par.tasks[t].rng, BucketSlots(halves.left))
                                  ELSE IF u = second
                                  THEN Task(call(halves.right, (f.num_problems + 1) \div 2),
                                            second, BucketSlots(halves.right))
                                  ELSE waiting.tasks[u]],
                              !.rngs = [r \in DOMAIN par.rngs \cup {second} |->
                                  IF r = second THEN seeded.child ELSE waiting.rngs[r]]]
                       /\ pc' = pc
    /\ UNCHANGED <<data, orig, cfg, parIdle>>

\* after the join: every left half takes its right half, then rough_shuffle on
\* the merged buckets
ParJoinRoughShuffle ==
    /\ \E t \in Live :
        /\ Runnable(t)
        /\ LET f == TaskTop(t)
               m == merge_halves(data, f.buckets, f.right_halves, 1)
           IN  /\ f.pc = "join"
               /\ data' = m.data
               /\ IF m.ok
                  THEN /\ par' = Advanced(t,
                                   rough_shuffle_entry([f EXCEPT !.right_halves = <<>>],
                                                       m.buckets, cfg.unsafe_algos),
                                   TaskRng(t),
                                   BucketSlots(f.buckets) \cup BucketSlots(f.right_halves))
                       /\ pc' = pc
                  ELSE pc' = "abort" /\ UNCHANGED par
    /\ UNCHANGED <<orig, cfg, parIdle>>

\* with_unsafe_algos::rough_shuffle, the head of its loop
ParAcceleratedLoop ==
    /\ \E t \in Live :
        /\ Runnable(t)
        /\ TaskTop(t).pc = "accelerated"
        /\ LET r == with_unsafe_algos_loop(TaskTop(t), data)
           IN  par' = Advanced(t, r.frame, TaskRng(t), r.touched)
    /\ UNCHANGED <<data, pc, orig, cfg, parIdle>>

\* one round: two words of the source, one for each prefetch
ParAcceleratedRound ==
    /\ \E t \in Live :
        /\ Runnable(t)
        /\ LET f  == TaskTop(t)
               g0 == gen(TaskRng(t))
               g1 == gen(g0.rng)
               r  == with_unsafe_algos_round(f, data, prefetch_indices(g0.word, f.N),
                                             prefetch_indices(g1.word, f.N))
           IN  /\ f.pc = "round"
               /\ f.rs.rounds > 0
               /\ data' = r.data
               /\ par' = Advanced(t, r.frame, g1.rng, r.touched)
               /\ pc' = IF r.inside THEN pc ELSE "out_of_bounds"
    /\ UNCHANGED <<orig, cfg, parIdle>>

\* after the rounds: the stash goes back to the array, the buckets take the
\* pointers
ParAcceleratedDrain ==
    /\ \E t \in Live :
        /\ Runnable(t)
        /\ LET f == TaskTop(t)
               r == with_unsafe_algos_drain(f, data)
           IN  /\ f.pc = "round"
               /\ f.rs.rounds = 0
               /\ data' = r.data
               /\ par' = Advanced(t, r.frame, TaskRng(t), r.touched)
               /\ pc' = IF ~r.inside THEN "out_of_bounds"
                        ELSE IF ~r.ok THEN "abort" ELSE pc
    /\ UNCHANGED <<orig, cfg, parIdle>>

\* naive::rough_shuffle with a new RandomBitsSource
ParNaive ==
    /\ \E t \in Live :
        /\ Runnable(t)
        /\ TaskTop(t).pc = "naive"
        /\ par' = Advanced(t, [naive_rough_shuffle(TaskTop(t)) EXCEPT
                                  !.rbs = RandomBitsSource_new],
                           TaskRng(t), {})
    /\ UNCHANGED <<data, pc, orig, cfg, parIdle>>

\* one iteration of rough_shuffle_impl: LOG_N bits of the RandomBitsSource
ParNaiveLoop ==
    /\ \E t \in Live :
        /\ Runnable(t)
        /\ LET f == TaskTop(t)
               b == gen_const_bits(f.rbs, TaskRng(t), ilog2(f.N))
               r == rough_shuffle_impl(f, data, b.value)
           IN  /\ f.pc = "naive_loop"
               /\ data' = r.data
               /\ par' = Advanced(t, [r.frame EXCEPT !.rbs = b.rbs], b.rng, r.touched)
    /\ UNCHANGED <<pc, orig, cfg, parIdle>>

\* rough_shuffle and with it invoke_rough_shuffle return
ParRoughShuffleReturn ==
    /\ \E t \in Live :
        /\ Runnable(t)
        /\ TaskTop(t).pc = "rough_done"
        /\ par' = Returned(t, TaskRng(t), TaskTop(t).buckets)
        /\ pc' = ReturnedPc(t)
    /\ UNCHANGED <<data, orig, cfg, parIdle>>

\* shuffle_stashes when the stashes fit the last bucket: compact_ranges, then
\* shuffle on the last stash_size slots of the last bucket
ParShuffleStashesCompact ==
    /\ \E t \in Live :
        /\ Runnable(t)
        /\ LET f    == TaskTop(t)
               c    == compact_ranges(data, f.buckets)
               last == f.buckets[f.N]
               size == stash_size(f.buckets)
           IN  /\ f.pc = "shuffle_stashes"
               /\ size <= last.len
               /\ data' = c.data
               /\ IF ~c.ok THEN pc' = "abort" /\ UNCHANGED par
                  ELSE IF Len(par.tasks[t].stack) >= MaxDepth
                  THEN pc' = "stack_overflow" /\ UNCHANGED par
                  ELSE /\ par' = Called(t, [f EXCEPT !.pc = "stash_recursed",
                                                     !.num_unprocessed = size],
                                        ParFrame("par_shuffle", last.start + last.len - size, size),
                                        TaskRng(t), BucketSlots(f.buckets))
                       /\ pc' = pc
    /\ UNCHANGED <<orig, cfg, parIdle>>

\* shuffle_stashes after the recursion: compact_ranges a second time
ParShuffleStashesUncompact ==
    /\ \E t \in Live :
        /\ Runnable(t)
        /\ LET f == TaskTop(t)
               c == compact_ranges(data, f.buckets)
           IN  /\ f.pc = "stash_recursed"
               /\ data' = c.data
               /\ IF c.ok
                  THEN /\ par' = Advanced(t, [f EXCEPT !.pc = "draw_target_lengths"],
                                          TaskRng(t), BucketSlots(f.buckets))
                       /\ pc' = pc
                  ELSE pc' = "abort" /\ UNCHANGED par
    /\ UNCHANGED <<orig, cfg, parIdle>>

\* shuffle_stashes when the stashes do not fit the last bucket: enter
\* noncontiguous_fisher_yates on the unprocessed slices
ParShuffleStashesNoncontiguous ==
    /\ \E t \in Live :
        /\ Runnable(t)
        /\ LET f      == TaskTop(t)
               ranges == unprocessed_ranges(f.buckets)
               first  == first_position(ranges, f.N - 1)
               longest == max_len(ranges, f.N - 1)
           IN  /\ f.pc = "shuffle_stashes"
               /\ stash_size(f.buckets) > f.buckets[f.N].len
               /\ par' = Advanced(t, [f EXCEPT !.pc = "noncontiguous",
                                               !.num_unprocessed = stash_size(f.buckets),
                                               !.i = first.i_range, !.j = first.i,
                                               !.max_len = longest,
                                               !.max_len_tol = (f.N * longest) \div 2],
                                  TaskRng(t), {})
    /\ UNCHANGED <<data, pc, orig, cfg, parIdle>>

RECURSIVE noncontiguous_loop(_, _, _, _, _, _, _)
\* the inner loop of noncontiguous_fisher_yates at (i_range, i): the bound of j
\* and the two draws, again and again until j lies in ranges[j_range].  The
\* loop never ends (ok is FALSE) when gen_index never ends or when the loop
\* comes back to a state it has been in (seen)
noncontiguous_loop(ranges, i_range, i, rng, longest, tol, seen) ==
    LET renew       == i_range > 0 /\ tol = 0
        max_len_now == IF renew THEN max_len(ranges, i_range) ELSE longest
        max_len_tol == IF i_range = 0 THEN tol
                       ELSE IF renew THEN ((i_range + 1) * max_len_now) \div 2
                       ELSE tol - 1
        ub          == IF i_range > 0 THEN max_len_now ELSE i
        j_range     == gen_index(rng, i_range + 1)
        j           == gen_index(j_range.rng, ub + 1)
        here        == <<rng.s, longest, tol>>
    IN  IF here \in seen \/ ~j_range.ok \/ ~j.ok
        THEN [ok |-> FALSE, j_range |-> 0, j |-> 0, rng |-> rng,
              max_len |-> longest, max_len_tol |-> tol]
        ELSE IF j.value < ranges[j_range.value + 1].len
        THEN [ok |-> TRUE, j_range |-> j_range.value, j |-> j.value, rng |-> j.rng,
              max_len |-> max_len_now, max_len_tol |-> max_len_tol]
        ELSE noncontiguous_loop(ranges, i_range, i, j.rng, max_len_now, max_len_tol,
                                seen \cup {here})

\* one iteration of the loops of noncontiguous_fisher_yates at (i_range, i): the
\* inner loop, then the swap
ParNoncontiguousStep ==
    /\ \E t \in Live :
        /\ Runnable(t)
        /\ LET f       == TaskTop(t)
               ranges  == unprocessed_ranges(f.buckets)
               i_range == f.i
               i       == f.j
               drawn   == noncontiguous_loop(ranges, i_range, i, TaskRng(t),
                                             f.max_len, f.max_len_tol, {})
               next    == next_position(ranges, i_range, i)
           IN  /\ f.pc = "noncontiguous"
               /\ i_range >= 0
               /\ IF ~drawn.ok
                  THEN pc' = "spinning" /\ UNCHANGED <<data, par>>
                  ELSE /\ data' = swap(data, ranges[i_range + 1].start + i,
                                       ranges[drawn.j_range + 1].start + drawn.j)
                       /\ par' = Advanced(t, [f EXCEPT !.i = next.i_range, !.j = next.i,
                                                       !.max_len = drawn.max_len,
                                                       !.max_len_tol = drawn.max_len_tol],
                                          drawn.rng,
                                          {ranges[i_range + 1].start + i,
                                           ranges[drawn.j_range + 1].start + drawn.j})
                       /\ pc' = pc
    /\ UNCHANGED <<orig, cfg, parIdle>>

\* the loops of noncontiguous_fisher_yates are over
ParNoncontiguousReturn ==
    /\ \E t \in Live :
        /\ Runnable(t)
        /\ LET f == TaskTop(t)
           IN  /\ f.pc = "noncontiguous"
               /\ f.i < 0
               /\ par' = Advanced(t, [f EXCEPT !.pc = "draw_target_lengths", !.i = 0, !.j = 0,
                                               !.max_len = 0, !.max_len_tol = 0],
                                  TaskRng(t), {})
    /\ UNCHANGED <<data, pc, orig, cfg, parIdle>>

\* draw_target_lengths: the stash elements are dealt to the buckets by a
\* multinomial draw, a bucket's target is num_processed plus its share
ParDrawTargetLengths ==
    /\ \E t \in Live :
        /\ Runnable(t)
        /\ LET f == TaskTop(t)
               m == multinomial_on(TaskRng(t), f.N, f.num_unprocessed)
           IN  /\ f.pc = "draw_target_lengths"
               /\ par' = Advanced(t, [f EXCEPT
                              !.pc = "move",
                              !.target_lengths = [k \in 1..f.N |-> f.buckets[k].np + m.values[k]]],
                              m.rng, {})
    /\ UNCHANGED <<data, pc, orig, cfg, parIdle>>

\* move_buckets_to_fit_target_len followed by shuffle_stashes, the order of the
\* statements of SeqScatterShuffleImpl::shuffle
ParMoveBucketsToFitTargetLenThenStashes ==
    /\ \E t \in Live :
        /\ Runnable(t)
        /\ LET f == TaskTop(t)
               m == move_buckets_to_fit_target_len(data, f.buckets, f.target_lengths)
           IN  /\ f.pc = "move"
               /\ data' = m.data
               /\ IF m.ok
                  THEN /\ par' = Advanced(t, [f EXCEPT !.pc = "shuffle_stashes",
                                                       !.buckets = m.buckets,
                                                       !.target_lengths = <<>>],
                                          TaskRng(t), BucketSlots(f.buckets))
                       /\ pc' = pc
                  ELSE pc' = "abort" /\ UNCHANGED par
    /\ UNCHANGED <<orig, cfg, parIdle>>

\* move_buckets_to_fit_target_len
ParMoveBucketsToFitTargetLen ==
    /\ \E t \in Live :
        /\ Runnable(t)
        /\ LET f == TaskTop(t)
               m == move_buckets_to_fit_target_len(data, f.buckets, f.target_lengths)
           IN  /\ f.pc = "move"
               /\ data' = m.data
               /\ IF m.ok
                  THEN /\ par' = Advanced(t, [f EXCEPT !.pc = "recurse", !.buckets = m.buckets,
                                                       !.target_lengths = <<>>],
                                          TaskRng(t), BucketSlots(f.buckets))
                       /\ pc' = pc
                  ELSE pc' = "abort" /\ UNCHANGED par
    /\ UNCHANGED <<orig, cfg, parIdle>>

\* shuffle returns without the recursion when par_disable_recursion
ParShuffleReturn ==
    /\ \E t \in Live :
        /\ Runnable(t)
        /\ TaskTop(t).pc = "recurse"
        /\ cfg.par_disable_recursion
        /\ par' = Returned(t, TaskRng(t), <<>>)
        /\ pc' = ReturnedPc(t)
    /\ UNCHANGED <<data, orig, cfg, parIdle>>

\* the last statement of shuffle: recurse on all buckets
ParRecurse ==
    /\ \E t \in Live :
        /\ Runnable(t)
        /\ LET f == TaskTop(t)
           IN  /\ f.pc = "recurse"
               /\ ~cfg.par_disable_recursion
               /\ par' = Advanced(t, [f EXCEPT !.pc = "par_recurse",
                                               !.buckets = data_mut(f.buckets)],
                                  TaskRng(t), {})
    /\ UNCHANGED <<data, pc, orig, cfg, parIdle>>

\* recurse on one bucket: shuffle on its data_mut(), the last call of recurse
ParRecurseLeaf ==
    /\ \E t \in Live :
        /\ Runnable(t)
        /\ LET f == TaskTop(t)
           IN  /\ f.pc = "par_recurse"
               /\ Len(f.buckets) = 1
               /\ par' = Advanced(t, ParFrame("par_shuffle", f.buckets[1].start, f.buckets[1].len),
                                  TaskRng(t), {})
    /\ UNCHANGED <<data, pc, orig, cfg, parIdle>>

\* recurse on more buckets: split_at_mut in the middle, seed right_rng, join
\* the recursion on the two parts
ParRecurseFork ==
    /\ \E t \in Live :
        /\ Runnable(t)
        /\ LET f       == TaskTop(t)
               mid     == Len(f.buckets) \div 2
               left_buckets  == SubSeq(f.buckets, 1, mid)
               right_buckets == SubSeq(f.buckets, mid + 1, Len(f.buckets))
               seeded  == seed_new_rng(TaskRng(t))
               first   == Append(t, 0)
               second  == Append(t, 1)
               call(bs) == [ParFrame("par_recurse", 0, 0) EXCEPT !.buckets = bs]
               waiting == Advanced(t, [f EXCEPT !.pc = "join_recurse", !.buckets = <<>>],
                                   seeded.base, {})
           IN  /\ f.pc = "par_recurse"
               /\ Len(f.buckets) # 1
               /\ IF Len(t) >= MaxForks
                  THEN pc' = "stack_overflow" /\ UNCHANGED par
                  ELSE /\ par' = [waiting EXCEPT
                              !.tasks = [u \in Live \cup {first, second} |->
                                  IF u = first
                                  THEN Task(call(left_buckets), par.tasks[t].rng,
                                            BucketSlots(left_buckets))
                                  ELSE IF u = second
                                  THEN Task(call(right_buckets), second,
                                            BucketSlots(right_buckets))
                                  ELSE waiting.tasks[u]],
                              !.rngs = [r \in DOMAIN par.rngs \cup {second} |->
                                  IF r = second THEN seeded.child ELSE waiting.rngs[r]]]
                       /\ pc' = pc
    /\ UNCHANGED <<data, orig, cfg, parIdle>>

\* both closures of the join in recurse have returned: recurse returns
ParJoinRecurse ==
    /\ \E t \in Live :
        /\ Runnable(t)
        /\ TaskTop(t).pc = "join_recurse"
        /\ par' = Returned(t, TaskRng(t), <<>>)
        /\ pc' = ReturnedPc(t)
    /\ UNCHANGED <<data, orig, cfg, parIdle>>

\* the same shuffle once more: the same array, the same source
ParRerun ==
    /\ pc = "returned"
    /\ par.run = 1
    /\ pc' = "running"
    /\ data' = orig.data
    /\ par' = [run |-> 2, first |-> data, seed |-> par.seed]
                 @@ [tasks |-> [t \in {Root} |->
                                   Task(ParFrame("par_shuffle", 0, Len(data)), Root,
                                        Slots(0, Len(data)))],
                     rngs  |-> [t \in {Root} |-> par.seed],
                     last  |-> Touch(Root, {})]
    /\ UNCHANGED <<orig, cfg, parIdle>>

NextPar ==
    \/ ParShuffleBaseCase
    \/ ParFisherYatesStep
    \/ ParFisherYatesReturn
    \/ ParShuffleSplit
    \/ ParInvokeRoughShuffleLeaf
    \/ ParInvokeRoughShuffleFork
    \/ ParJoinRoughShuffle
    \/ ParAcceleratedLoop
    \/ ParAcceleratedRound
    \/ ParAcceleratedDrain
    \/ ParNaive
    \/ ParNaiveLoop
    \/ ParRoughShuffleReturn
    \/ ParShuffleStashesCompact
    \/ ParShuffleStashesUncompact
    \/ ParShuffleStashesNoncontiguous
    \/ ParNoncontiguousStep
    \/ ParNoncontiguousReturn
    \/ ParDrawTargetLengths
    \/ ParMoveBucketsToFitTargetLen
    \/ ParShuffleReturn
    \/ ParRecurse
    \/ ParRecurseLeaf
    \/ ParRecurseFork
    \/ ParJoinRecurse
    \/ ParRerun

SpecPar == InitPar /\ [][NextPar]_vars

\* two closures that may run at the same time: neither has joined the other
Concurrent(t, u) ==
    /\ t \in Live /\ u \in Live
    /\ \E k \in 1..Min(Len(t), Len(u)) : t[k] # u[k]

\* C2: two shuffles of the same array whose sources deliver the same words end
\* with the same array, whatever the interleaving of the closures of the joins
C2_SameArrayOnEveryInterleaving ==
    (pc = "returned" /\ par.run = 2) => data = par.first

\* C3: closures that may run at the same time have accessed disjoint sets of
\* slots and hold distinct sources, and a call that waits in a join accesses
\* nothing before both closures have returned
C3_RaceFreedom ==
    /\ \A t \in Live, u \in Live :
          Concurrent(t, u) =>
              /\ par.tasks[t].accessed \cap par.tasks[u].accessed = {}
              /\ par.tasks[t].rng # par.tasks[u].rng
    /\ par.last.slots # {} => ~HasChildren(par.last.task)

\* The scheduler of the joins lets some closure take a step as long as the
\* driver runs: weak fairness of NextPar, with "no step is possible" written as
\* "the driver does not run" (the only states of the model without a step)
FairSpecPar ==
    InitPar /\ [][NextPar]_vars /\ ([]<><<NextPar>>_vars \/ <>[](pc # "running"))

MaxNum == 2        \* slots a caller asks shrink_to_right / grow_from_right to move

\* the bucket set without bucket j
Without(bs, j) == [m \in 1..(Len(bs) - 1) |-> IF m < j THEN bs[m] ELSE bs[m + 1]]

ApplyToPair(name, i, j, k, o, bs) ==
    /\ data' = o.data
    /\ buckets' = IF o.ok THEN bs ELSE buckets
    /\ pc' = IF o.ok THEN "run" ELSE "abort"
    /\ ops' = Append(ops, [name |-> name, i |-> i, j |-> j, k |-> k, before |-> Before])
    /\ UNCHANGED <<orig, bucketIdle>>

Pairs == {ij \in (1..Len(buckets)) \X (1..Len(buckets)) : ij[1] # ij[2]}

SetBoth(bs, i, j, o) == [bs EXCEPT ![i] = o.left, ![j] = o.right]

PairMergeWithRightNeighbor ==
    /\ CanApply
    /\ \E ij \in Pairs :
        LET o == merge_with_right_neighbor(data, buckets[ij[1]], buckets[ij[2]])
        IN  ApplyToPair("merge_with_right_neighbor", ij[1], ij[2], 0, o,
                        Without([buckets EXCEPT ![ij[1]] = o.left], ij[2]))

PairMoveStashToRightNeighbor ==
    /\ CanApply
    /\ \E ij \in Pairs :
        LET o == move_stash_to_right_neighbor(data, buckets[ij[1]], buckets[ij[2]])
        IN  ApplyToPair("move_stash_to_right_neighbor", ij[1], ij[2], 0, o,
                        SetBoth(buckets, ij[1], ij[2], o))

PairShrinkToRight ==
    /\ CanApply
    /\ \E ij \in Pairs, num \in 0..MaxNum :
        LET o == shrink_to_right(data, buckets[ij[1]], buckets[ij[2]], num)
        IN  ApplyToPair("shrink_to_right", ij[1], ij[2], num, o,
                        SetBoth(buckets, ij[1], ij[2], o))

PairGrowFromRight ==
    /\ CanApply
    /\ \E ij \in Pairs, num \in 0..MaxNum :
        LET o == grow_from_right(data, buckets[ij[1]], buckets[ij[2]], num)
        IN  ApplyToPair("grow_from_right", ij[1], ij[2], num, o,
                        SetBoth(buckets, ij[1], ij[2], o))

NextNeighbors ==
    \/ PairMergeWithRightNeighbor
    \/ PairMoveStashToRightNeighbor
    \/ PairShrinkToRight
    \/ PairGrowFromRight

SpecNeighbors == InitBucket /\ [][NextNeighbors]_vars

\* the end of the left bucket of the last operation was not the start of its
\* right bucket
LastPairApart ==
    LastOp.before.buckets[LastOp.i].start + LastOp.before.buckets[LastOp.i].len
        # LastOp.before.buckets[LastOp.j].start

\* C11: the four operations on two buckets of which the left does not end where
\* the right starts stop at the assertion, with the array, the lengths and the
\* num_processed as they were
C11_AdjacencyChecked ==
    (ops # <<>> /\ LastPairApart) =>
        /\ pc = "abort"
        /\ data = LastOp.before.data
        /\ buckets = LastOp.before.buckets

\* an operation stopped on two buckets with a bucket between them, where it
\* would have had elements to swap and slots to move
C11_Witness ==
    /\ ops # <<>> /\ LastPairApart
    /\ pc = "abort"
    /\ LastOp.name = "shrink_to_right"
    /\ LastOp.i < LastOp.j
    /\ LastOp.k >= 1
    /\ LastOp.k <= num_unprocessed(LastOp.before.buckets[LastOp.i])
    /\ LastOp.before.buckets[LastOp.j].np >= 1

(***************************************************************************)
(* SpecSplit: split_slice_into_equally_sized_buckets on a slice of every   *)
(* length a usize holds, for the bucket counts of the dispatch, in both    *)
(* builds.                                                                 *)
(***************************************************************************)
BucketCounts == {2, 4, 8, 16}

splitIdle == <<ops, smp, fy, stack, par>>

InitSplit ==
    /\ \E n \in 0..(Pow2(UsizeBits) - 1), N \in BucketCounts, oc \in BOOLEAN :
        /\ data = Identity(n)
        /\ cfg = [N |-> N, overflow_checks |-> oc]
    /\ buckets = <<>>
    /\ pc = "call"
    /\ orig = [data |-> data, buckets |-> <<>>]
    /\ ops = <<>>
    /\ smp = [w |-> 0]
    /\ fy = [i |-> 0]
    /\ stack = <<>>
    /\ par = [run |-> 0]

SplitSlice ==
    /\ pc = "call"
    /\ LET r == split_loop(0, Len(data), Len(data), cfg.N, 0, <<>>, cfg.overflow_checks)
       IN  /\ buckets' = r.buckets
           /\ pc' = IF r.ok THEN "returned" ELSE "panicked"
    /\ UNCHANGED <<data, orig, cfg, splitIdle>>

NextSplit == SplitSlice

SpecSplit == InitSplit /\ [][NextSplit]_vars

EquallySized(bs, n, N) ==
    /\ Len(bs) = N
    /\ bs[1].start = 0
    /\ \A i \in 1..(N - 1) : is_left_neighbor_of(bs[i], bs[i + 1])
    /\ SumSeq([i \in 1..N |-> bs[i].len]) = n
    /\ \A i \in 1..N, j \in 1..N : bs[i].len - bs[j].len <= 1
    /\ \A i \in 1..N : bs[i].np = 0

\* C12: for every length and every bucket count the call returns N adjacent
\* buckets that cover the array, with lengths at most one apart and nothing
\* processed
C12_EquallySizedBuckets ==
    /\ pc # "panicked"
    /\ pc = "returned" => EquallySized(buckets, Len(data), cfg.N)

\* the same for the lengths whose products with the bucket count fit a usize
C12_EquallySizedBucketsInRange ==
    cfg.N * Len(data) < Pow2(UsizeBits) =>
        /\ pc # "panicked"
        /\ pc = "returned" => EquallySized(buckets, Len(data), cfg.N)

\* a build without overflow checks returned a set that does not cover the array
C12_ShortSplit ==
    /\ pc = "returned"
    /\ ~cfg.overflow_checks
    /\ SumSeq([i \in 1..Len(buckets) |-> buckets[i].len]) < Len(data)

(***************************************************************************)
(* SpecRough: rough_shuffle (mod.rs) on a bucket set of its own, for every *)
(* bucket index the random words can select, in both builds, followed by  *)
(* the optional compact_into_single_bucket of the tests.  ops holds the    *)
(* last step: its name, the slots it reached through each bucket's pointer *)
(* and the array and bucket set before it.                                 *)
(***************************************************************************)
MaxEntryProcessed == 2   \* num_processed of a bucket on entry is at most this

\* the slices rough_shuffle is called on: <<len, N>>.  Two buckets up to three
\* rounds of the accelerated variant, and the bucket counts four to sixteen with
\* buckets of one or two elements
RoughSlices ==
    {<<n, 2>> : n \in 0..12} \cup {<<n, 4>> : n \in 3..6}
        \cup {<<n, 8>> : n \in 8..9} \cup {<<n, 16>> : n \in 16..17}

\* the sets whose buckets have already processed some elements
ProcessedOnEntry == {<<n, 2>> : n \in {2, 3, 4, 10, 12}}

roughIdle == <<buckets, smp, fy, par>>

InitRough ==
    /\ \E sl \in RoughSlices, ua \in BOOLEAN :
        LET bs == split_slice_into_equally_sized_buckets(0, sl[1], sl[2])
        IN  \E nps \in IF sl \in ProcessedOnEntry
                        THEN [1..sl[2] -> 0..MaxEntryProcessed]
                        ELSE {[i \in 1..sl[2] |-> 0]} :
            /\ \A i \in 1..sl[2] : nps[i] <= bs[i].len
            /\ data = Identity(sl[1])
            /\ cfg = [unsafe_algos |-> ua]
            /\ stack = <<rough_shuffle_entry(Frame(0, sl[1], sl[2]),
                                             [i \in 1..sl[2] |-> [bs[i] EXCEPT !.np = nps[i]]],
                                             ua)>>
    /\ orig = [data |-> data, buckets |-> Top.buckets]
    /\ pc = "running"
    /\ buckets = <<>>
    /\ ops = <<>>
    /\ smp = NoSampler
    /\ fy = NoFisherYates
    /\ par = NoPar

\* the elements in the processed prefixes of the buckets bs of the array d
ProcessedElements(d, bs) ==
    {d[q + 1] : q \in UNION {bs[k].start..(bs[k].start + bs[k].np - 1) : k \in 1..Len(bs)}}

\* the steps that take an element in flight: the element of each slot they reach
\* goes to the stash or becomes the active element
FlightSteps == {"bootstrap", "round", "naive", "swap", "process"}

\* the record of a step: accesses are pairs <<bucket index, slot>>.  flown are
\* the elements that have been in flight so far, and those an earlier call left
\* in the processed prefixes; pending is the element in flight when a pass of
\* the accelerated variant or an iteration of rough_shuffle_impl is over (0 when
\* there is none)
RoughStep(name, accesses, base, inflight) ==
    LET flown   == IF ops = <<>> THEN ProcessedElements(orig.data, orig.buckets)
                   ELSE LastOp.flown
        pending == IF ops = <<>> THEN 0 ELSE LastOp.pending
        reached == {data[a[2] + 1] : a \in {b \in accesses : b[2] < Len(data)}}
    IN  <<[name |-> name, accesses |-> accesses, base |-> base, inflight |-> inflight,
           before |-> [data |-> data, buckets |-> Top.buckets],
           flown |-> IF name \in FlightSteps THEN flown \cup reached ELSE flown,
           pending |-> IF name = "drain" THEN inflight
                       ELSE IF name \in {"naive", "swap", "process"} /\ accesses # {}
                       THEN CHOOSE e \in reached : TRUE
                       ELSE IF name = "process" THEN 0
                       ELSE pending]>>

RoughAcceleratedLoop ==
    /\ Running /\ Top.pc = "accelerated"
    /\ LET r == with_unsafe_algos_loop(Top, data)
       IN  /\ stack' = SetTop(r.frame)
           /\ ops' = RoughStep(IF r.touched = {} THEN "break" ELSE "bootstrap",
                               {<<0, q>> : q \in r.touched}, 0, 0)
    /\ UNCHANGED <<data, pc, orig, cfg, roughIdle>>

RoughAcceleratedRound ==
    /\ Running /\ Top.pc = "round"
    /\ Top.rs.rounds > 0
    /\ \E rand0, rand1 \in [1..SwapsPerRound -> 0..(Top.N - 1)] :
        LET r  == with_unsafe_algos_round(Top, data, rand0, rand1)
            p0 == prefetch(Top.rs.pointers, rand0)
            p1 == prefetch(p0.pointers, rand1)
        IN  /\ ops' = RoughStep("round",
                          {<<rand0[k], p0.buffer[k]>> : k \in 1..SwapsPerRound}
                              \cup {<<rand1[k], p1.buffer[k]>> : k \in 1..SwapsPerRound},
                          0, 0)
            /\ IF ~r.inside
               THEN /\ pc' = "undefined"
                    /\ UNCHANGED <<data, stack>>
               ELSE /\ data' = r.data
                    /\ stack' = SetTop(r.frame)
                    /\ pc' = pc
    /\ UNCHANGED <<orig, cfg, roughIdle>>

RoughAcceleratedDrain ==
    /\ Running /\ Top.pc = "round"
    /\ Top.rs.rounds = 0
    /\ LET r == with_unsafe_algos_drain(Top, data)
           current_base == fetch_and_decrement(Top.rs.pointers, 0).result
       IN  /\ ops' = RoughStep("drain", {<<0, current_base>>, <<0, Top.rs.seed_for_stash>>},
                               Top.rs.pointers[1], Top.rs.stash[Top.rs.read_idx + 1])
           /\ IF ~r.inside
              THEN /\ pc' = "undefined"
                   /\ UNCHANGED <<data, stack>>
              ELSE /\ data' = r.data
                   /\ IF r.ok
                      THEN stack' = SetTop(r.frame) /\ pc' = pc
                      ELSE Abort(Top)
    /\ UNCHANGED <<orig, cfg, roughIdle>>

RoughNaive ==
    /\ Running /\ Top.pc = "naive"
    /\ stack' = SetTop(naive_rough_shuffle(Top))
    /\ ops' = RoughStep("naive",
                        IF naive_rough_shuffle(Top).pc = "naive_loop"
                        THEN {<<0, Top.buckets[1].start + Top.buckets[1].np>>} ELSE {},
                        0, 0)
    /\ UNCHANGED <<data, pc, orig, cfg, roughIdle>>

RoughNaiveLoop ==
    /\ Running /\ Top.pc = "naive_loop"
    /\ \E partner_bucket_idx \in 0..(Top.N - 1) :
        LET r == rough_shuffle_impl(Top, data, partner_bucket_idx)
        IN  /\ data' = r.data
            /\ stack' = SetTop(r.frame)
            /\ ops' = RoughStep(IF partner_bucket_idx < Top.N - 1 THEN "swap" ELSE "process",
                                IF partner_bucket_idx < Top.N - 1
                                THEN {<<partner_bucket_idx + 1,
                                        Top.buckets[partner_bucket_idx + 2].start
                                            + Top.buckets[partner_bucket_idx + 2].np>>}
                                ELSE IF r.frame.pc = "naive_loop"
                                THEN {<<0, Top.buckets[1].start + Top.buckets[1].np + 1>>}
                                ELSE {},
                                0, 0)
    /\ UNCHANGED <<pc, orig, cfg, roughIdle>>

\* rough_shuffle returns to its caller
RoughReturn ==
    /\ Running /\ Top.pc = "rough_done"
    /\ pc' = "returned"
    /\ ops' = RoughStep("return", {}, 0, 0)
    /\ UNCHANGED <<data, stack, orig, cfg, roughIdle>>

\* the caller compacts the buckets into one (common_tests.rs:46-48)
RoughCompact ==
    /\ pc = "returned"
    /\ LET c == compact_into_single_bucket(data, Top.buckets)
       IN  /\ data' = c.data
           /\ buckets' = <<c.bucket>>
           /\ pc' = IF c.ok THEN "compacted" ELSE "abort"
    /\ ops' = RoughStep("compact", {}, 0, 0)
    /\ UNCHANGED <<stack, orig, cfg, smp, fy, par>>

NextRough ==
    \/ RoughAcceleratedLoop
    \/ RoughAcceleratedRound
    \/ RoughAcceleratedDrain
    \/ RoughNaive
    \/ RoughNaiveLoop
    \/ RoughReturn
    \/ RoughCompact

SpecRough == InitRough /\ [][NextRough]_vars

\* the slot q lies in the unprocessed region of bucket b
InUnprocessed(q, b) == b.start + b.np <= q /\ q < b.start + b.len

AcceleratedSteps == {"bootstrap", "round", "drain"}

\* C13: every slot a step of an accelerated pass reaches through the pointer of
\* bucket i lies in the unprocessed region bucket i had when the pass began, and
\* no pointer is ever beyond the end of its bucket
C13_NoPointerOverrun ==
    /\ (ops # <<>> /\ LastOp.name \in AcceleratedSteps) =>
          \A a \in LastOp.accesses : InUnprocessed(a[2], LastOp.before.buckets[a[1] + 1])
    /\ (stack # <<>> /\ Top.rs.pointers # <<>>) =>
          \A i \in 1..Top.N : Top.rs.pointers[i] <= Top.buckets[i].start + Top.buckets[i].len

\* a pass whose draws all selected bucket 0 reached the first slot of bucket 1
\* through the pointer of bucket 0
C13_Overrun ==
    /\ ops # <<>> /\ LastOp.name = "round"
    /\ <<0, LastOp.before.buckets[2].start>> \in LastOp.accesses

\* the slot from which the pass of the last step took its first in-flight element
BootstrapSlot == LastOp.before.buckets[1].start + LastOp.before.buckets[1].np

\* C14: the drain writes the final in-flight element to the slot one below the
\* advanced pointer of bucket 0 and moves the element of that slot to the
\* bootstrap slot
C14_DrainBelowBase ==
    (ops # <<>> /\ LastOp.name = "drain" /\ pc = "running") =>
        /\ data[(LastOp.base - 1) + 1] = LastOp.inflight
        /\ data[BootstrapSlot + 1] = LastOp.before.data[(LastOp.base - 1) + 1]

\* what the drain does: both at the slot of the advanced pointer itself
DrainAtBase ==
    (ops # <<>> /\ LastOp.name = "drain" /\ pc = "running") =>
        /\ data[LastOp.base + 1] = LastOp.inflight
        /\ data[BootstrapSlot + 1] = LastOp.before.data[LastOp.base + 1]

\* C15: when rough_shuffle has returned, and when the buckets have then been
\* compacted into one, the array is a permutation of the array on entry; the
\* run reaches no failed assertion and no slot outside the array
C15_RoughShufflePreservesMultiset ==
    /\ pc \notin {"abort", "undefined"}
    /\ pc \in {"returned", "compacted"} => SameMultiset(data, orig.data)

\* the buckets were compacted after an accelerated pass whose draws all selected
\* bucket 0 and filled it
C15_Witness ==
    /\ pc = "compacted"
    /\ cfg.unsafe_algos
    /\ data # orig.data
    /\ orig.buckets[1].np = 0 /\ orig.buckets[1].len >= 4
    /\ is_fully_processed(Top.buckets[1])

\* the fully processed buckets of a bucket set
FullBuckets(bs) == {i \in 1..Len(bs) : is_fully_processed(bs[i])}

\* C16: in every state of a run of rough_shuffle each bucket has
\* 0 <= num_processed <= len, the buckets lie where they lay on entry, each next
\* to the following one, and after each reconciliation of an accelerated pass
\* every pointer is within its bucket; the assertion of the reconciliation holds
C16_BucketInvariants ==
    /\ pc # "abort"
    /\ (pc \in {"running", "returned"}) =>
          /\ Len(Top.buckets) = Len(orig.buckets)
          /\ \A i \in 1..Top.N :
                /\ 0 <= Top.buckets[i].np /\ Top.buckets[i].np <= Top.buckets[i].len
                /\ Top.buckets[i].start = orig.buckets[i].start
                /\ Top.buckets[i].len = orig.buckets[i].len
          /\ \A i \in 1..(Top.N - 1) : is_left_neighbor_of(Top.buckets[i], Top.buckets[i + 1])
          /\ (ops # <<>> /\ LastOp.name = "drain") =>
                \A i \in 1..Top.N :
                    /\ Top.buckets[i].start <= Top.rs.pointers[i]
                    /\ Top.rs.pointers[i] <= Top.buckets[i].start + Top.buckets[i].len
                    /\ Top.buckets[i].np = Top.rs.pointers[i] - Top.buckets[i].start

\* a reconciliation after a pass that advanced the pointers of both buckets
C16_Witness ==
    /\ pc = "running"
    /\ ops # <<>> /\ LastOp.name = "drain"
    /\ \A i \in 1..Top.N : Top.buckets[i].np > LastOp.before.buckets[i].np

\* the steps of rough_shuffle that move elements or process one
MovingSteps == {"bootstrap", "round", "drain", "swap", "process"}

\* C17: rough_shuffle returns with a fully processed bucket; entered without
\* one it returns with exactly one, and no step of a pass or of the naive loop
\* starts from a set that has one; entered with one it changes neither the array
\* nor any num_processed
C17_StopsAtFirstFullBucket ==
    (pc \in {"running", "returned"}) =>
        /\ pc = "returned" => FullBuckets(Top.buckets) # {}
        /\ FullBuckets(orig.buckets) = {} =>
              /\ pc = "returned" => Cardinality(FullBuckets(Top.buckets)) = 1
              /\ Top.pc \in {"naive_loop", "round"} => FullBuckets(Top.buckets) = {}
              /\ (ops # <<>> /\ LastOp.name \in MovingSteps) =>
                    FullBuckets(LastOp.before.buckets) = {}
        /\ FullBuckets(orig.buckets) # {} =>
              /\ data = orig.data
              /\ Top.buckets = orig.buckets
              /\ ops # <<>> => LastOp.name \notin MovingSteps

\* four buckets, none full on entry: the naive loop moved elements and returned
\* with one bucket full and an unprocessed element in every other
C17_Witness ==
    /\ pc = "returned"
    /\ Top.N = 4
    /\ FullBuckets(orig.buckets) = {}
    /\ Cardinality(FullBuckets(Top.buckets)) = 1
    /\ data # orig.data
    /\ \E i \in 1..Top.N : Top.buckets[i].len = 2 /\ Top.buckets[i].np = 1

\* the slot q lies in the processed prefix of bucket b
InProcessed(q, b) == b.start <= q /\ q < b.start + b.np

\* the slot of an element of the array
SlotOf(e) == (CHOOSE p \in 1..Len(data) : data[p] = e) - 1

\* C26: when rough_shuffle returns, every element in a processed prefix has
\* been in flight (or was processed on entry), so that every element that was
\* never in flight lies in an unprocessed suffix, and so does the element in
\* flight at the end
C26_ProcessedPrefixesHoldRoutedElements ==
    pc = "returned" =>
        /\ ProcessedElements(data, Top.buckets) \subseteq LastOp.flown
        /\ LastOp.pending # 0 =>
              \E k \in 1..Top.N : InUnprocessed(SlotOf(LastOp.pending), Top.buckets[k])

\* the same for the calls that run no accelerated pass
RoutedByNaiveLoop ==
    (pc = "returned" /\ ~cfg.unsafe_algos) =>
        /\ ProcessedElements(data, Top.buckets) \subseteq LastOp.flown
        /\ LastOp.pending # 0 =>
              \E k \in 1..Top.N : InUnprocessed(SlotOf(LastOp.pending), Top.buckets[k])

(***************************************************************************)
(* SpecReshape: the steps of shuffle after the rough shuffle, on a bucket  *)
(* set in any state a rough shuffle can leave: sample_final_bucket_size,   *)
(* move_buckets_to_fit_target_len, shuffle_stashes.                        *)
(***************************************************************************)
reshapeIdle == <<smp, fy, stack, par>>

\* sample_final_bucket_size(rng, num_unprocessed, buckets), for every outcome of
\* the binomial draws
sample_final_bucket_size(num_unprocessed_sum, bs) ==
    {[k \in 1..Len(bs) |-> bs[k].np + additional[k]] :
        additional \in multinomial(Len(bs), num_unprocessed_sum)}

ReshapeSample ==
    /\ pc = "run"
    /\ \E target_len \in sample_final_bucket_size(stash_size(buckets), buckets) :
          cfg' = [target_lengths |-> target_len]
    /\ pc' = "sampled"
    /\ ops' = <<[name |-> "sample_final_bucket_size", before |-> Before]>>
    /\ UNCHANGED <<data, buckets, orig, reshapeIdle>>

ReshapeMove ==
    /\ pc = "sampled"
    /\ LET m == move_buckets_to_fit_target_len(data, buckets, cfg.target_lengths)
       IN  /\ data' = m.data
           /\ buckets' = IF m.ok THEN m.buckets ELSE buckets
           /\ pc' = IF m.ok THEN "moved" ELSE "abort"
    /\ ops' = <<[name |-> "move_buckets_to_fit_target_len", before |-> Before]>>
    /\ UNCHANGED <<orig, cfg, reshapeIdle>>

\* shuffle_stashes when the stashes fit the last bucket: the first compact_ranges
ReshapeCompact ==
    /\ pc = "run"
    /\ stash_size(buckets) <= buckets[Len(buckets)].len
    /\ LET c == compact_ranges(data, buckets)
       IN  /\ data' = c.data
           /\ buckets' = c.buckets
           /\ pc' = IF c.ok THEN "compacted" ELSE "abort"
    /\ cfg' = [stash_size |-> stash_size(buckets), i_range |-> 0, i |-> 0]
    /\ ops' = <<[name |-> "compact_ranges", before |-> Before]>>
    /\ UNCHANGED <<orig, reshapeIdle>>

\* recurse on the last stash_size slots of the last bucket: the slice in any order
ReshapeRecurse ==
    /\ pc = "compacted"
    /\ LET last == buckets[Len(buckets)]
       IN  \E js \in DrawSequences(cfg.stash_size - 1) :
               data' = fisher_yates_on(data, last.start + last.len - cfg.stash_size,
                                       cfg.stash_size - 1, js)
    /\ pc' = "stash_recursed"
    /\ ops' = <<[name |-> "recurse", before |-> Before]>>
    /\ UNCHANGED <<buckets, orig, cfg, reshapeIdle>>

\* the second compact_ranges; shuffle_stashes returns stash_size
ReshapeUncompact ==
    /\ pc = "stash_recursed"
    /\ LET c == compact_ranges(data, buckets)
       IN  /\ data' = c.data
           /\ buckets' = c.buckets
           /\ pc' = IF c.ok THEN "stashes_shuffled" ELSE "abort"
    /\ ops' = <<[name |-> "compact_ranges", before |-> Before]>>
    /\ UNCHANGED <<orig, cfg, reshapeIdle>>

\* shuffle_stashes when the stashes do not fit the last bucket
ReshapeNoncontiguous ==
    /\ pc = "run"
    /\ stash_size(buckets) > buckets[Len(buckets)].len
    /\ LET first == first_position(unprocessed_ranges(buckets), Len(buckets) - 1)
       IN  cfg' = [stash_size |-> stash_size(buckets),
                   i_range |-> first.i_range, i |-> first.i]
    /\ pc' = "noncontiguous"
    /\ ops' = <<[name |-> "noncontiguous_fisher_yates", before |-> Before]>>
    /\ UNCHANGED <<data, buckets, orig, reshapeIdle>>

\* one accepted draw of noncontiguous_fisher_yates at (i_range, i)
ReshapeNoncontiguousStep ==
    /\ pc = "noncontiguous"
    /\ cfg.i_range >= 0
    /\ LET ranges == unprocessed_ranges(buckets)
           ub     == IF cfg.i_range = 0 THEN cfg.i ELSE max_len(ranges, cfg.i_range)
           next   == next_position(ranges, cfg.i_range, cfg.i)
       IN  \E j_range \in gen_index_values(cfg.i_range + 1), j \in gen_index_values(ub + 1) :
               /\ j < ranges[j_range + 1].len
               /\ data' = swap(data, ranges[cfg.i_range + 1].start + cfg.i,
                                     ranges[j_range + 1].start + j)
               /\ cfg' = [cfg EXCEPT !.i_range = next.i_range, !.i = next.i]
    /\ ops' = <<[name |-> "swap", before |-> Before]>>
    /\ UNCHANGED <<buckets, pc, orig, reshapeIdle>>

\* the loops of noncontiguous_fisher_yates are over; shuffle_stashes returns
\* stash_size
ReshapeNoncontiguousReturn ==
    /\ pc = "noncontiguous"
    /\ cfg.i_range < 0
    /\ pc' = "stashes_shuffled"
    /\ ops' = <<[name |-> "return", before |-> Before]>>
    /\ UNCHANGED <<data, buckets, orig, cfg, reshapeIdle>>

NextReshape ==
    \/ ReshapeSample
    \/ ReshapeMove
    \/ ReshapeCompact
    \/ ReshapeRecurse
    \/ ReshapeUncompact
    \/ ReshapeNoncontiguous
    \/ ReshapeNoncontiguousStep
    \/ ReshapeNoncontiguousReturn

SpecReshape == InitBucket /\ [][NextReshape]_vars

Lengths(bs) == [k \in 1..Len(bs) |-> bs[k].len]

\* C18: with targets of at least num_processed that sum to the lengths,
\* move_buckets_to_fit_target_len meets every assertion of the two sweeps and
\* leaves every bucket with its target length, the buckets adjacent from the
\* same start, every num_processed as it was, the processed elements of each
\* bucket in its processed prefix and the stash elements in the stashes
C18_ReshapePostcondition ==
    (ops # <<>> /\ LastOp.name = "move_buckets_to_fit_target_len") =>
        /\ pc = "moved"
        /\ Lengths(buckets) = cfg.target_lengths
        /\ buckets[1].start = LastOp.before.buckets[1].start
        /\ \A k \in 1..(Len(buckets) - 1) : is_left_neighbor_of(buckets[k], buckets[k + 1])
        /\ \A k \in 1..Len(buckets) :
              /\ buckets[k].np = LastOp.before.buckets[k].np
              /\ ProcSet(data, buckets[k]) = ProcSet(LastOp.before.data, LastOp.before.buckets[k])
        /\ StashUnion(data, buckets) = StashUnion(LastOp.before.data, LastOp.before.buckets)

\* three buckets with processed elements: the first grew, the last shrank, and
\* elements moved
C18_Witness ==
    /\ pc = "moved"
    /\ Len(buckets) = 3
    /\ buckets[1].len > LastOp.before.buckets[1].len
    /\ buckets[3].len < LastOp.before.buckets[3].len
    /\ \A k \in 1..3 : buckets[k].np >= 1
    /\ data # LastOp.before.data

\* C19: the targets of sample_final_bucket_size are at least the num_processed
\* of their buckets and sum to the length of the parent range
C19_TargetSum ==
    pc = "sampled" =>
        /\ Len(cfg.target_lengths) = Len(buckets)
        /\ \A k \in 1..Len(buckets) : cfg.target_lengths[k] >= buckets[k].np
        /\ SumSeq(cfg.target_lengths) = SumSeq(Lengths(buckets))

\* a draw that gave the first of three bins every ball and the last none
C19_Witness ==
    /\ pc = "sampled"
    /\ Len(buckets) = 3
    /\ stash_size(buckets) >= 2
    /\ cfg.target_lengths[1] = buckets[1].np + stash_size(buckets)
    /\ cfg.target_lengths[3] = buckets[3].np
    /\ buckets[3].np >= 1

\* the slots of the processed prefixes of a bucket set
ProcessedSlots(bs) ==
    UNION {{bs[k].start + q : q \in 0..(bs[k].np - 1)} : k \in 1..Len(bs)}

ShuffleStashesStates == {"compacted", "stash_recursed", "noncontiguous", "stashes_shuffled"}

\* C20: after the first compact_ranges the last S slots of the last bucket hold
\* the stash elements and a second compact_ranges would undo the first; when
\* shuffle_stashes returns, on either path, every processed element is where it
\* was, the stashes hold the stash elements, the buckets are as they were and S
\* is returned; the non-contiguous Fisher-Yates never touches a processed slot
C20_ShuffleStashesKeepsProcessed ==
    /\ (ops # <<>> /\ LastOp.name \in {"compact_ranges", "recurse", "swap"}) => pc # "abort"
    /\ pc \in ShuffleStashesStates =>
          /\ buckets = orig.buckets
          /\ cfg.stash_size = stash_size(orig.buckets)
    /\ pc = "compacted" =>
          LET last == buckets[Len(buckets)]
          IN  /\ {data[p + 1] : p \in (last.start + last.len - cfg.stash_size)
                                        ..(last.start + last.len - 1)}
                     = StashUnion(orig.data, orig.buckets)
              /\ compact_ranges(data, buckets).data = orig.data
    /\ pc \in {"noncontiguous", "stashes_shuffled"} =>
          /\ \A p \in ProcessedSlots(orig.buckets) : data[p + 1] = orig.data[p + 1]
          /\ StashUnion(data, buckets) = StashUnion(orig.data, orig.buckets)

\* shuffle_stashes returned on the compacting path: the stashes of two donors
\* went through the last bucket, which has processed elements, and came back in
\* another order
C20_Witness ==
    /\ pc = "stashes_shuffled"
    /\ LastOp.name = "compact_ranges"
    /\ Len(buckets) = 3
    /\ \A k \in 1..2 : num_unprocessed(buckets[k]) >= 1 /\ buckets[k].np >= 1
    /\ buckets[3].np >= 2
    /\ data # orig.data

(***************************************************************************)
(* SpecNoncontiguous: noncontiguous_fisher_yates on up to MaxRanges slices *)
(* of an array of distinct elements, one action per pass of its inner      *)
(* loop.  buckets holds the slices; cfg the locals of the function.        *)
(***************************************************************************)
MaxRanges == 3       \* slices handed to noncontiguous_fisher_yates
MaxRangeLen == 3     \* length of one slice
MaxRangesLen == 5    \* length of all slices together

RangeShapes ==
    UNION {{sh \in [1..nr -> 0..MaxRangeLen] : SumSeq(sh) <= MaxRangesLen} : nr \in 0..MaxRanges}

RECURSIVE RangesOf(_, _)
RangesOf(sh, s) ==
    IF sh = <<>> THEN <<>>
    ELSE <<[start |-> s, len |-> Head(sh)]>> \o RangesOf(Tail(sh), s + Head(sh))

noncontiguousIdle == <<orig, smp, fy, stack, par>>

InitNoncontiguous ==
    /\ \E sh \in RangeShapes :
        /\ buckets = RangesOf(sh, 0)
        /\ data = Identity(SumSeq(sh))
    /\ pc = "call"
    /\ orig = [data |-> data, buckets |-> buckets]
    /\ ops = <<>>
    /\ cfg = [max_len |-> 0, max_len_tol |-> 0, i_range |-> 0, i |-> 0]
    /\ smp = NoSampler
    /\ fy = NoFisherYates
    /\ stack = <<>>
    /\ par = NoPar

\* the head of noncontiguous_fisher_yates: return on no ranges, otherwise
\* max_len, max_len_tol and the first position of the loops
NoncontiguousEnter ==
    /\ pc = "call"
    /\ IF buckets = <<>>
       THEN pc' = "returned" /\ cfg' = cfg
       ELSE LET longest == max_len(buckets, Len(buckets) - 1)
                first   == first_position(buckets, Len(buckets) - 1)
            IN  /\ cfg' = [max_len |-> longest,
                           max_len_tol |-> (Len(buckets) * longest) \div 2,
                           i_range |-> first.i_range, i |-> first.i]
                /\ pc' = "loop"
    /\ UNCHANGED <<data, buckets, ops, noncontiguousIdle>>

\* one pass of the inner loop at (i_range, i): the bound, the two draws, and the
\* swap when j is within the range drawn
NoncontiguousAttempt ==
    /\ pc = "loop"
    /\ cfg.i_range >= 0
    /\ LET refresh == cfg.i_range > 0 /\ cfg.max_len_tol = 0
           longest == IF refresh THEN max_len(buckets, cfg.i_range) ELSE cfg.max_len
           tol     == IF cfg.i_range = 0 THEN cfg.max_len_tol
                      ELSE IF refresh THEN ((cfg.i_range + 1) * longest) \div 2
                      ELSE cfg.max_len_tol - 1
           ub      == IF cfg.i_range = 0 THEN cfg.i ELSE longest
           next    == next_position(buckets, cfg.i_range, cfg.i)
       IN  \E j_range \in gen_index_values(cfg.i_range + 1), j \in gen_index_values(ub + 1) :
               LET accepted == j < buckets[j_range + 1].len
               IN  /\ data' = IF accepted
                              THEN swap(data, buckets[cfg.i_range + 1].start + cfg.i,
                                              buckets[j_range + 1].start + j)
                              ELSE data
                   /\ cfg' = [max_len |-> longest, max_len_tol |-> tol,
                              i_range |-> IF accepted THEN next.i_range ELSE cfg.i_range,
                              i |-> IF accepted THEN next.i ELSE cfg.i]
                   /\ ops' = <<[name |-> IF accepted THEN "swap" ELSE "reject",
                                i_range |-> cfg.i_range, i |-> cfg.i,
                                j_range |-> j_range, j |-> j,
                                before |-> Before]>>
    /\ UNCHANGED <<buckets, pc, noncontiguousIdle>>

\* the loops are over
NoncontiguousEnd ==
    /\ pc = "loop"
    /\ cfg.i_range < 0
    /\ pc' = "returned"
    /\ UNCHANGED <<data, buckets, ops, cfg, noncontiguousIdle>>

NextNoncontiguous ==
    \/ NoncontiguousEnter
    \/ NoncontiguousAttempt
    \/ NoncontiguousEnd

SpecNoncontiguous == InitNoncontiguous /\ [][NextNoncontiguous]_vars

\* the index of slot k of range r (0-based) in the concatenation of the ranges
Concatenated(ranges, r, k) == SumSeq([m \in 1..r |-> ranges[m].len]) + k

\* the position of the last pass and its partner, in the concatenation
LastPosition == Concatenated(buckets, LastOp.i_range, LastOp.i)
LastPartner == Concatenated(buckets, LastOp.j_range, LastOp.j)

\* C21: the positions are visited in decreasing order of their index in the
\* concatenation, and the partner of an accepted swap is at an index not above
\* that of the position
C21_PartnerAtOrBelowPosition ==
    (ops # <<>> /\ LastOp.name = "swap") =>
        /\ LastPartner <= LastPosition
        /\ cfg.i_range >= 0 => Concatenated(buckets, cfg.i_range, cfg.i) < LastPosition

\* the visiting order alone, and the partners of the positions of range 0
NoncontiguousOrder ==
    (ops # <<>> /\ LastOp.name = "swap") =>
        /\ cfg.i_range >= 0 => Concatenated(buckets, cfg.i_range, cfg.i) < LastPosition
        /\ LastOp.i_range = 0 => LastPartner <= LastPosition
        /\ LastOp.j_range < LastOp.i_range => LastPartner < LastPosition

(***************************************************************************)
(* SpecPrefetch: fisher_yates_impl of with_prefetch.rs and of              *)
(* with_unsafe_algos.rs with a ring buffer of PrefetchWidth indices, on an *)
(* array of distinct elements, for every result of the sampler.  fy holds  *)
(* the locals and, as ghosts, the requests made of the sampler and the     *)
(* swaps performed.                                                        *)
(***************************************************************************)
PrefetchWidth == 2   \* PREFETCH_WIDTH, 16 in the code
MaxPrefetchN == 7    \* longest array

prefetchIdle == <<buckets, orig, ops, smp, stack, par>>

\* the ring buffer: replace the slot at ring_buf_idx and advance; old is the
\* value that was there
enqueue_in_place(ring_buf, ring_buf_idx, new_val) ==
    [ring_buf |-> [ring_buf EXCEPT ![ring_buf_idx + 1] = new_val],
     ring_buf_idx |-> ring_buf_idx,
     old |-> ring_buf[ring_buf_idx + 1]]

enqueue(ring_buf, ring_buf_idx, new_val) ==
    [ring_buf |-> [ring_buf EXCEPT ![ring_buf_idx + 1] = new_val],
     ring_buf_idx |-> (ring_buf_idx + 1) % Len(ring_buf),
     old |-> ring_buf[ring_buf_idx + 1]]

InitPrefetch ==
    /\ \E n \in 0..MaxPrefetchN, variant \in {"with_prefetch", "with_unsafe_algos"} :
        /\ data = Identity(n)
        /\ cfg = [variant |-> variant, N |-> PrefetchWidth]
    /\ fy = [i |-> 0, ring_buf |-> [k \in 1..PrefetchWidth |-> 0], ring_buf_idx |-> 0,
             init |-> "none", naive |-> FALSE, draws |-> <<>>, swaps |-> <<>>]
    /\ pc = "call"
    /\ orig = [data |-> data, buckets |-> <<>>]
    /\ buckets = <<>>
    /\ ops = <<>>
    /\ smp = NoSampler
    /\ stack = <<>>
    /\ par = NoPar

\* n <= 2 * N: naive::fisher_yates
PrefetchNaive ==
    /\ pc = "call"
    /\ Len(data) <= 2 * cfg.N
    /\ \E js \in DrawSequences(Len(data) - 1) :
        /\ data' = fisher_yates_on(data, 0, Len(data) - 1, js)
        /\ fy' = [fy EXCEPT !.naive = TRUE,
                            !.draws = [k \in 1..Len(js) |->
                                          [i |-> Len(data) - k, ub |-> Len(data) - k + 1,
                                           j |-> js[k]]],
                            !.swaps = [k \in 1..Len(js) |-> <<Len(data) - k, js[k]>>]]
    /\ pc' = "returned"
    /\ UNCHANGED <<cfg, prefetchIdle>>

\* n > 2 * N: the first loop starts at i = n - 1
PrefetchEnter ==
    /\ pc = "call"
    /\ Len(data) > 2 * cfg.N
    /\ fy' = [fy EXCEPT !.i = Len(data) - 1]
    /\ pc' = "fill"
    /\ UNCHANGED <<data, cfg, prefetchIdle>>

\* draw_and_fetch(data, ub): a request to the sampler, recorded with the
\* position lag below the loop index it is drawn for
Drawn(i, ub, j) == Append(fy.draws, [i |-> i, ub |-> ub, j |-> j])

\* the first loop: for i in (n - N..n).rev() { enqueue(draw_and_fetch(i + 1)) };
\* the accelerated variant then draws init
PrefetchFill ==
    /\ pc = "fill"
    /\ \E j \in gen_index_values(fy.i + 1) :
        LET e    == enqueue(fy.ring_buf, fy.ring_buf_idx, j)
            last == fy.i = Len(data) - cfg.N
        IN  /\ fy' = [fy EXCEPT !.ring_buf = e.ring_buf, !.ring_buf_idx = e.ring_buf_idx,
                                !.draws = Drawn(fy.i, fy.i + 1, j),
                                !.i = IF last THEN Len(data) - 1 ELSE fy.i - 1,
                                !.init = IF last /\ cfg.variant = "with_unsafe_algos"
                                         THEN "low" ELSE fy.init]
            /\ pc' = IF last THEN "steady" ELSE "fill"
    /\ UNCHANGED <<data, cfg, prefetchIdle>>

\* the second loop: for i in (N + 1..n).rev(): draw with bound i - N + 1,
\* enqueue it, swap i with the index that leaves the ring buffer.  The
\* accelerated variant takes the first word of the sampler from a fresh init
\* when i is even and from the upper half of init when i is odd.
PrefetchSteady ==
    /\ pc = "steady"
    /\ \E j_new \in gen_index_values(fy.i - cfg.N + 1) :
        LET e    == enqueue(fy.ring_buf, fy.ring_buf_idx, j_new)
            j    == e.old
            last == fy.i = cfg.N + 1
        IN  /\ data' = swap(data, fy.i, j)
            /\ fy' = [fy EXCEPT !.ring_buf = e.ring_buf, !.ring_buf_idx = e.ring_buf_idx,
                                !.draws = Drawn(fy.i - cfg.N, fy.i - cfg.N + 1, j_new),
                                !.swaps = Append(@, <<fy.i, j>>),
                                !.i = IF last THEN cfg.N ELSE fy.i - 1,
                                !.init = IF cfg.variant # "with_unsafe_algos" THEN fy.init
                                         ELSE IF fy.i % 2 = 0 THEN "low" ELSE "high"]
            /\ pc' = IF last THEN "drain" ELSE "steady"
    /\ UNCHANGED <<cfg, prefetchIdle>>

\* the third loop: for i in (1..N + 1).rev() { j = enqueue(0); swap(i, j) }
PrefetchDrain ==
    /\ pc = "drain"
    /\ LET e    == enqueue(fy.ring_buf, fy.ring_buf_idx, 0)
           j    == e.old
           last == fy.i = 1
       IN  /\ data' = swap(data, fy.i, j)
           /\ fy' = [fy EXCEPT !.ring_buf = e.ring_buf, !.ring_buf_idx = e.ring_buf_idx,
                               !.swaps = Append(@, <<fy.i, j>>),
                               !.i = fy.i - 1]
           /\ pc' = IF last THEN "returned" ELSE "drain"
    /\ UNCHANGED <<cfg, prefetchIdle>>

NextPrefetch ==
    \/ PrefetchNaive
    \/ PrefetchEnter
    \/ PrefetchFill
    \/ PrefetchSteady
    \/ PrefetchDrain

SpecPrefetch == InitPrefetch /\ [][NextPrefetch]_vars

\* C22: the sampler is asked for the index of position i with bound i + 1 in
\* the order i = n-1 .. 1, the swaps are (i, j_i) with the index drawn for
\* position i in the order i = n-1 .. 1, the array on return is the array of the
\* naive loop for the same results, and arrays of at most 2 W elements take the
\* naive loop
C22_PrefetchedEqualsNaive ==
    LET n == Len(orig.data)
    IN  /\ \A k \in 1..Len(fy.draws) :
              /\ fy.draws[k].i = n - k
              /\ fy.draws[k].ub = n - k + 1
              /\ fy.draws[k].j < fy.draws[k].ub
        /\ \A k \in 1..Len(fy.swaps) :
              /\ k <= Len(fy.draws)
              /\ fy.swaps[k] = <<n - k, fy.draws[k].j>>
        /\ n <= 2 * cfg.N => pc \in {"call", "returned"}
        /\ pc = "returned" =>
              /\ fy.naive <=> n <= 2 * cfg.N
              /\ Len(fy.draws) = Max(n - 1, 0)
              /\ Len(fy.swaps) = Len(fy.draws)
              /\ data = fisher_yates_on(orig.data, 0, n - 1,
                                        [k \in 1..Len(fy.draws) |-> fy.draws[k].j])

\* the accelerated variant returned from its three loops with every element moved
C22_Witness ==
    /\ pc = "returned"
    /\ ~fy.naive
    /\ cfg.variant = "with_unsafe_algos"
    /\ Len(data) = MaxPrefetchN
    /\ \A p \in 1..Len(data) : data[p] # orig.data[p]

(***************************************************************************)
(* SpecDrivers: a call of the sequential driver or of the parallel driver. *)
(* Every call in progress is a frame; its pc names the statement it        *)
(* executes next, and with it the phase of the level that is pending.      *)
(***************************************************************************)
InitDrivers == InitSeq \/ InitPar

SeqDriverStep == par.run = 0 /\ NextSeq

ParDriverStep == par.run # 0 /\ NextPar

NextDrivers == SeqDriverStep \/ ParDriverStep

SpecDrivers == InitDrivers /\ [][NextDrivers]_vars

\* the phase of its level a call executes next.  "rough_done" is the statement
\* after rough_shuffle: sample_final_bucket_size in the sequential driver, the
\* return of invoke_rough_shuffle in the parallel one
PendingPhase(f, parallel) ==
    CASE f.pc \in {"shuffle_adaptive", "shuffle", "par_shuffle", "fisher_yates"} -> "split"
      [] f.pc \in {"accelerated", "round", "naive", "naive_loop",
                   "invoke_rough_shuffle", "join"} -> "rough"
      [] f.pc = "rough_done" -> IF parallel THEN "rough" ELSE "draw"
      [] f.pc \in {"shuffle_stashes", "stash_recursed", "noncontiguous"} -> "stash"
      [] f.pc = "draw_target_lengths" -> "draw"
      [] f.pc = "move" -> "move"
      [] f.pc \in {"recurse", "par_recurse", "join_recurse"} -> "recurse"

\* the order of the statements of ParScatterShuffleImpl::shuffle
ParPhases == <<"split", "rough", "stash", "draw", "move", "recurse">>

\* the order of the statements of SeqScatterShuffleImpl::shuffle
SeqPhases == <<"split", "rough", "draw", "move", "stash", "recurse">>

PhaseRank(phases, phase) == CHOOSE k \in 1..Len(phases) : phases[k] = phase

\* the calls in progress before and after a step, as pairs of frames of the same
\* call
SeqCallSteps ==
    IF par.run # 0 THEN {}
    ELSE {<<stack[k], stack'[k]>> : k \in 1..Min(Len(stack), Len(stack'))}

\* recurse on a single bucket hands it to shuffle, the first statement of the
\* next level
EntersLevel(pair) == pair[1].pc = "par_recurse" /\ pair[2].pc = "par_shuffle"

ParCallSteps ==
    IF par.run = 0 \/ par'.run # par.run THEN {}
    ELSE {pair \in UNION {{<<par.tasks[t].stack[k], par'.tasks[t].stack[k]>> :
                    k \in 1..Min(Len(par.tasks[t].stack), Len(par'.tasks[t].stack))} :
                t \in DOMAIN par.tasks \cap DOMAIN par'.tasks} : ~EntersLevel(pair)}

InOrder(phases, pair, parallel) ==
    PhaseRank(phases, PendingPhase(pair[1], parallel))
        <= PhaseRank(phases, PendingPhase(pair[2], parallel))

MaxProblems == 9   \* num_problems handed to invoke_rough_shuffle
MaxHalvesN == 8    \* longest slice of the safe build

HalvesScenarios ==
    {[n |-> n, N |-> N, num_problems |-> P, unsafe_algos |-> FALSE] :
        n \in 0..MaxHalvesN, N \in {2, 4}, P \in 1..MaxProblems}
    \cup {[n |-> 16 * SwapsPerRound, N |-> 2, num_problems |-> 2, unsafe_algos |-> TRUE]}

NoMerge == [left |-> <<>>, right |-> <<>>, merged |-> <<>>, depth |-> 0]

halvesIdle == <<buckets, smp, fy, par>>

InitHalves ==
    /\ \E sc \in HalvesScenarios :
        /\ data = Identity(sc.n)
        /\ cfg = [N |-> sc.N, num_problems |-> sc.num_problems,
                  unsafe_algos |-> sc.unsafe_algos]
        /\ stack = <<[Frame(0, sc.n, sc.N) EXCEPT
                        !.pc = "invoke_rough_shuffle",
                        !.buckets = split_slice_into_equally_sized_buckets(0, sc.n, sc.N),
                        !.num_problems = sc.num_problems]>>
    /\ orig = [data |-> data, buckets |-> <<>>]
    /\ ops = [leaves |-> 0, rough_shuffles |-> 0, depth |-> 0, merge |-> NoMerge]
    /\ pc = "running"
    /\ buckets = <<>>
    /\ smp = NoSampler
    /\ fy = NoFisherYates
    /\ par = NoPar

\* invoke_rough_shuffle with num_problems == 1: rough_shuffle on the buckets
HalvesLeaf ==
    /\ Running /\ Top.pc = "invoke_rough_shuffle"
    /\ Top.num_problems = 1
    /\ stack' = SetTop(rough_shuffle_entry(Top, Top.buckets, cfg.unsafe_algos))
    /\ ops' = [ops EXCEPT !.leaves = @ + 1, !.rough_shuffles = @ + 1,
                          !.depth = Max(@, Len(stack) - 1)]
    /\ UNCHANGED <<data, pc, orig, cfg, halvesIdle>>

\* invoke_rough_shuffle with more subproblems: split every bucket in half and
\* enter the first closure of the join, on the left halves with num_problems / 2
HalvesFork ==
    /\ Running /\ Top.pc = "invoke_rough_shuffle"
    /\ Top.num_problems # 1
    /\ LET halves == split_each_bucket_in_half(Top.buckets)
       IN  stack' = Append(SetTop([Top EXCEPT !.pc = "join_left",
                                              !.buckets = halves.left,
                                              !.right_halves = halves.right]),
                           [Frame(Top.start, Top.len, Top.N) EXCEPT
                               !.pc = "invoke_rough_shuffle",
                               !.buckets = halves.left,
                               !.num_problems = Top.num_problems \div 2])
    /\ UNCHANGED <<data, pc, orig, cfg, ops, halvesIdle>>

\* rough_shuffle is over and invoke_rough_shuffle returns.  The first closure of
\* a join is followed by the second, on the right halves with
\* (num_problems + 1) / 2; the second by the statement after the join
HalvesReturn ==
    /\ Running /\ Top.pc = "rough_done"
    /\ IF Len(stack) = 1
       THEN Return
       ELSE LET caller == stack[Len(stack) - 1]
                callers == SubSeq(stack, 1, Len(stack) - 2)
            IN  /\ pc' = pc
                /\ IF caller.pc = "join_left"
                   THEN stack' = callers \o
                            <<[caller EXCEPT !.pc = "join_right", !.buckets = Top.buckets],
                              [Frame(caller.start, caller.len, caller.N) EXCEPT
                                  !.pc = "invoke_rough_shuffle",
                                  !.buckets = caller.right_halves,
                                  !.num_problems = (caller.num_problems + 1) \div 2]>>
                   ELSE stack' = Append(callers,
                            [caller EXCEPT !.pc = "join", !.right_halves = Top.buckets])
    /\ UNCHANGED <<data, orig, cfg, ops, halvesIdle>>

\* after the join: every left half takes its right half, then rough_shuffle on
\* the merged buckets
HalvesJoin ==
    /\ Running /\ Top.pc = "join"
    /\ LET m == merge_halves(data, Top.buckets, Top.right_halves, 1)
       IN  /\ data' = m.data
           /\ IF m.ok
              THEN /\ stack' = SetTop(rough_shuffle_entry([Top EXCEPT !.right_halves = <<>>],
                                                          m.buckets, cfg.unsafe_algos))
                   /\ ops' = [ops EXCEPT !.rough_shuffles = @ + 1,
                                         !.merge = [left |-> Top.buckets,
                                                    right |-> Top.right_halves,
                                                    merged |-> m.buckets,
                                                    depth |-> Len(stack) - 1]]
                   /\ pc' = pc
              ELSE Abort(Top) /\ UNCHANGED ops
    /\ UNCHANGED <<orig, cfg, halvesIdle>>

NextHalves ==
    \/ HalvesLeaf
    \/ HalvesFork
    \/ HalvesReturn
    \/ HalvesJoin
    \/ AcceleratedLoop
    \/ AcceleratedRound
    \/ AcceleratedDrain
    \/ Naive
    \/ NaiveLoop

SpecHalves == InitHalves /\ [][NextHalves]_vars

\* steps are taken until the outermost call has returned or stopped
FairSpecHalves ==
    InitHalves /\ [][NextHalves]_vars
        /\ ([]<><<NextHalves>>_vars \/ <>[](pc # "running"))

\* a call in progress has a statement to execute
HalvesStep ==
    /\ stack # <<>>
    /\ Top.pc \in {"invoke_rough_shuffle", "rough_done", "join", "accelerated",
                   "round", "naive", "naive_loop"}

\* the least d with 2^d >= P
CeilLog2(P) == CHOOSE d \in 0..P : Pow2(d) >= P /\ (d = 0 \/ Pow2(d - 1) < P)

\* the calls of invoke_rough_shuffle in progress form a path of the tree: the
\* first closure of a join has num_problems / 2, the second (num_problems + 1) / 2
HalvesPath ==
    \A k \in 1..Len(stack) :
        /\ stack[k].num_problems >= 1
        /\ k > 1 =>
            LET caller == stack[k - 1]
            IN  \/ caller.pc = "join_left"
                     /\ stack[k].num_problems = caller.num_problems \div 2
                \/ caller.pc = "join_right"
                     /\ stack[k].num_problems = caller.num_problems - caller.num_problems \div 2

\* the last merge met N pairs of a left half and the right half next to it, and
\* gave N buckets, each over the slots of its two halves and with the sum of
\* their num_processed
HalvesMerged ==
    LET m == ops.merge
    IN  m # NoMerge =>
            /\ Len(m.merged) = cfg.N
            /\ \A k \in 1..cfg.N :
                /\ is_left_neighbor_of(m.left[k], m.right[k])
                /\ m.merged[k].start = m.left[k].start
                /\ m.merged[k].len = m.left[k].len + m.right[k].len
                /\ m.merged[k].np = m.left[k].np + m.right[k].np

\* the buckets the last merge gave are adjacent
MergedAdjacent ==
    \A k \in 1..(cfg.N - 1) : is_left_neighbor_of(ops.merge.merged[k], ops.merge.merged[k + 1])

\* C24 as stated: every inner call merges the halves into N adjacent buckets
C24_MergedIntoAdjacentBuckets == ops.merge # NoMerge => MergedAdjacent

HalvesTree ==
    /\ pc \in {"running", "returned"}
    /\ pc = "running" => HalvesStep
    /\ HalvesPath
    /\ HalvesMerged
    /\ ops.merge # NoMerge /\ ops.merge.depth = 0 => MergedAdjacent
    /\ Len(stack) - 1 <= CeilLog2(cfg.num_problems)
    /\ ops.leaves <= cfg.num_problems
    /\ ops.rough_shuffles <= 2 * cfg.num_problems - 1
    /\ pc = "returned" =>
        /\ ops.leaves = cfg.num_problems
        /\ ops.depth = CeilLog2(cfg.num_problems)
        /\ ops.rough_shuffles = 2 * cfg.num_problems - 1

\* C24: for every number of subproblems P >= 1 the parallel rough shuffle
\* returns; a call on more than one subproblem gives floor(P/2) of them to its
\* first closure and ceil(P/2) to its second; there are P leaf rough shuffles,
\* the deepest at depth ceil(log2 P); and every inner call merges each left half
\* with the right half next to it into one bucket with the summed
\* num_processed and then runs one rough shuffle on the N merged buckets, which
\* are adjacent in the outermost call
C24_SplitHalvesTree == []HalvesTree /\ <>(pc = "returned")

\* a call below the outermost one has merged halves with processed elements
\* into buckets that are not adjacent
C24_Witness ==
    /\ pc = "running"
    /\ ops.merge # NoMerge /\ ops.merge.depth > 0
    /\ \E k \in 1..cfg.N : ops.merge.left[k].np > 0 /\ ops.merge.right[k].np > 0
    /\ ~MergedAdjacent

(***************************************************************************)
(* SpecBits: RandomBitsSource under every sequence of gen_bits,            *)
(* gen_const_bits and gen_bool.  A word is the sequence of its bits, the   *)
(* lowest first; a bit is the pair <<w, b>>, bit b of the w-th word drawn  *)
(* from the source, or Zero, the constant a shift fills in.  ops keeps the *)
(* bits handed out so far and the last call.                               *)
(***************************************************************************)
WordBits == 6      \* width of a word of the source and of the cache, 64 in the code
MaxWords == 3      \* words a run draws from the source

Zero == <<0, 0>>

\* two bits of the source in one position
Mixed == <<0, 1>>

ZeroWord == [b \in 1..WordBits |-> Zero]

\* the w-th word of rng.gen()
FreshWord(w) == [b \in 1..WordBits |-> <<w, b - 1>>]

\* word >> k
shr(word, k) == [b \in 1..WordBits |-> IF b + k <= WordBits THEN word[b + k] ELSE Zero]

\* word << k
shl(word, k) == [b \in 1..WordBits |-> IF b - k >= 1 THEN word[b - k] ELSE Zero]

\* a | b: a position where both words hold a bit of the source mixes the two
bit_or(a, b) ==
    [p \in 1..WordBits |-> IF a[p] = Zero THEN b[p] ELSE IF b[p] = Zero THEN a[p] ELSE Mixed]

\* word & ((1 << k) - 1)
bit_and_mask(word, k) == [b \in 1..WordBits |-> IF b <= k THEN word[b] ELSE Zero]

\* gen_const_bits that keeps the cached bits it has already handed out
gen_const_bits_keeping(rbs, words, N) ==
    LET refill == rbs.num_available < N
        bits   == IF refill THEN FreshWord(words + 1) ELSE rbs.random_bits
        avail  == IF refill THEN WordBits ELSE rbs.num_available
    IN  [value |-> bit_and_mask(bits, N),
         rbs   |-> [random_bits |-> bits, num_available |-> avail - N],
         drew  |-> refill]

\* RandomBitsSource::gen_bits; words is the number of words drawn so far
RandomBitsSource_gen_bits(rbs, words, num_bits) ==
    IF num_bits = WordBits
    THEN [value |-> FreshWord(words + 1), rbs |-> rbs, drew |-> TRUE]
    ELSE IF num_bits > rbs.num_available
    THEN LET rand == FreshWord(words + 1)
         IN  [value |-> bit_and_mask(rand, num_bits),
              rbs   |-> [random_bits   |-> bit_or(rbs.random_bits,
                                                  shl(shr(rand, num_bits), rbs.num_available)),
                         num_available |-> Min(rbs.num_available + WordBits - num_bits,
                                               WordBits)],
              drew  |-> TRUE]
    ELSE [value |-> bit_and_mask(rbs.random_bits, num_bits),
          rbs   |-> [random_bits   |-> shr(rbs.random_bits, num_bits),
                     num_available |-> rbs.num_available - num_bits],
          drew  |-> FALSE]

\* RandomBitsSource::gen_const_bits::<N>
RandomBitsSource_gen_const_bits(rbs, words, N) ==
    LET refill == rbs.num_available < N
        bits   == IF refill THEN FreshWord(words + 1) ELSE rbs.random_bits
        avail  == IF refill THEN WordBits ELSE rbs.num_available
    IN  [value |-> bit_and_mask(bits, N),
         rbs   |-> [random_bits |-> shr(bits, N), num_available |-> avail - N],
         drew  |-> refill]

bitsIdle == <<data, buckets, orig, fy, stack, cfg, par>>

InitBits ==
    /\ smp = [entry |-> "random_bits", random_bits |-> ZeroWord, num_available |-> 0]
    /\ ops = [served |-> {}, words |-> 0,
              last |-> [call |-> "new", num_bits |-> 0, value |-> ZeroWord, drew |-> FALSE,
                        cached |-> 0, served |-> {}]]
    /\ pc = "idle"
    /\ data = <<>>
    /\ buckets = <<>>
    /\ orig = [data |-> <<>>, buckets |-> <<>>]
    /\ fy = NoFisherYates
    /\ stack = <<>>
    /\ cfg = NoConfig
    /\ par = NoPar

BitsOf(word) == {word[b] : b \in 1..WordBits} \ {Zero}

\* the state after a call that gave the result r
Served(call, num_bits, r) ==
    /\ ops.words + (IF r.drew THEN 1 ELSE 0) <= MaxWords
    /\ smp' = [entry |-> "random_bits", random_bits |-> r.rbs.random_bits,
               num_available |-> r.rbs.num_available]
    /\ ops' = [served |-> ops.served \cup BitsOf(r.value),
               words  |-> ops.words + (IF r.drew THEN 1 ELSE 0),
               last   |-> [call |-> call, num_bits |-> num_bits, value |-> r.value,
                           drew |-> r.drew, cached |-> smp.num_available,
                           served |-> ops.served]]
    /\ UNCHANGED <<pc, bitsIdle>>

GenBits ==
    /\ pc = "idle"
    /\ \E num_bits \in 0..WordBits :
        Served("gen_bits", num_bits, RandomBitsSource_gen_bits(smp, ops.words, num_bits))

\* N <= 32 of the 64 bits of a word
GenConstBits ==
    /\ pc = "idle"
    /\ \E N \in 0..(WordBits \div 2) :
        Served("gen_const_bits", N, RandomBitsSource_gen_const_bits(smp, ops.words, N))

\* gen_bool compares the bit of gen_const_bits::<1> with 0
GenBool ==
    /\ pc = "idle"
    /\ Served("gen_bool", 1, RandomBitsSource_gen_const_bits(smp, ops.words, 1))

NextBits == GenBits \/ GenConstBits \/ GenBool

SpecBits == InitBits /\ [][NextBits]_vars

\* a bit of a word of the source
IsSourceBit(bit) == bit[1] \in 1..MaxWords

\* C25: every call returns num_bits bits of words of the source, none of them
\* returned by an earlier call, and zeros above them; it draws a word only when
\* fewer than num_bits bits are cached; num_available <= 64, the cache holds
\* num_available bits of the source not yet returned and zeros above them
C25_EveryBitServedOnce ==
    /\ \A b \in 1..WordBits :
          IF b <= ops.last.num_bits
          THEN /\ IsSourceBit(ops.last.value[b])
               /\ ops.last.value[b] \notin ops.last.served
               /\ \A c \in 1..WordBits : c # b => ops.last.value[c] # ops.last.value[b]
          ELSE ops.last.value[b] = Zero
    /\ ops.last.drew => ops.last.cached < ops.last.num_bits
    /\ smp.num_available \in 0..WordBits
    /\ \A b \in 1..WordBits :
          IF b <= smp.num_available
          THEN /\ IsSourceBit(smp.random_bits[b])
               /\ smp.random_bits[b] \notin ops.served
               /\ \A c \in 1..smp.num_available : c # b => smp.random_bits[c] # smp.random_bits[b]
          ELSE smp.random_bits[b] = Zero

\* gen_bits has refilled a cache that was not empty and handed out bits of the
\* new word, and the cache holds bits of two words
C25_Witness ==
    /\ ops.last.call = "gen_bits"
    /\ ops.last.drew /\ ops.last.cached > 0 /\ ops.last.num_bits < WordBits
    /\ \E b, c \in 1..smp.num_available : smp.random_bits[b][1] # smp.random_bits[c][1]

\* ---------------------------------------------------------------------------
\* merge_shuffle: random_merge of two adjacent runs, the rough random merge in
\* both builds followed by the insertion shuffle
\* ---------------------------------------------------------------------------

\* bits of the word the unchecked merge draws per batch (64 in the source)
MergeWordBits == 4
\* iterations of one unsafe_uncheck_iterations call (16 in the source)
UncheckedSteps == 2
\* longest run handed to random_merge
MaxRun == 5

\* one iteration of the checked loop; gen_bool is the coin of this iteration
rough_random_merge_step(d, begin, mid, end, gen_bool) ==
    IF gen_bool
    THEN IF mid = end
         THEN [break |-> TRUE, data |-> d, begin |-> begin, mid |-> mid]
         ELSE [break |-> FALSE, data |-> swap(d, begin, mid), begin |-> begin + 1, mid |-> mid + 1]
    ELSE IF begin = mid
         THEN [break |-> TRUE, data |-> d, begin |-> begin, mid |-> mid]
         ELSE [break |-> FALSE, data |-> d, begin |-> begin + 1, mid |-> mid]

\* one iteration of unsafe_uncheck_iterations
unsafe_uncheck_iteration(d, begin, mid, bit) ==
    LET partner == IF bit = 1 THEN begin ELSE mid
    IN  [data |-> swap(d, begin, partner), begin |-> begin + 1, mid |-> mid + bit]

\* the coin gen_bool makes of one bit of the source
gen_bool(bit) == bit = 0

mergeIdle == <<buckets, fy, stack, par>>

NoMergeStep == [name |-> "none", bit |-> 0, begin |-> 0, mid |-> 0, data |-> <<>>,
                ub |-> 0, left |-> 0, partner |-> 0]

InitMerge ==
    /\ \E l, r \in 0..MaxRun, u \in BOOLEAN :
        /\ data = Identity(l + r)
        /\ cfg = [left_len |-> l, unsafe_algos |-> u]
        /\ smp = [entry |-> "random_merge", begin |-> 0, mid |-> l, end |-> l + r,
                  rand |-> 0, i |-> 0, k |-> 0, left |-> 0]
        /\ pc = IF u THEN "batch" ELSE "loop"
    /\ orig = [data |-> data, buckets |-> <<>>]
    /\ ops = NoMergeStep
    /\ buckets = <<>>
    /\ fy = NoFisherYates
    /\ stack = <<>>
    /\ par = NoPar

\* head of the while loop of unsafe_rough_random_merge: draws the word of a batch
MergeBatch ==
    /\ pc = "batch"
    /\ IF Min(smp.end - smp.mid, smp.mid - smp.begin) >= MergeWordBits
       THEN \E rand \in 0..(Pow2(MergeWordBits) - 1) :
                /\ smp' = [smp EXCEPT !.rand = rand, !.i = 0, !.k = 0]
                /\ pc' = "unchecked"
       ELSE /\ smp' = smp
            /\ pc' = "loop"
    /\ ops' = [NoMergeStep EXCEPT !.name = "batch"]
    /\ UNCHANGED <<data, orig, cfg>>
    /\ UNCHANGED mergeIdle

\* one iteration of unsafe_uncheck_iterations on bit k of rand >> i
MergeUnchecked ==
    /\ pc = "unchecked"
    /\ LET bit == ((smp.rand \div Pow2(smp.i)) \div Pow2(smp.k)) % 2
           it == unsafe_uncheck_iteration(data, smp.begin, smp.mid, bit)
           k2 == smp.k + 1
           i2 == IF k2 = UncheckedSteps THEN smp.i + UncheckedSteps ELSE smp.i
       IN  /\ data' = it.data
           /\ smp' = [smp EXCEPT !.begin = it.begin, !.mid = it.mid,
                                 !.k = k2 % UncheckedSteps, !.i = i2]
           /\ pc' = IF i2 = MergeWordBits THEN "batch" ELSE "unchecked"
           /\ ops' = [NoMergeStep EXCEPT !.name = "unchecked", !.bit = bit,
                                         !.begin = smp.begin, !.mid = smp.mid, !.data = data]
    /\ UNCHANGED <<orig, cfg>>
    /\ UNCHANGED mergeIdle

\* one iteration of the checked loop, of either build
MergeChecked ==
    /\ pc = "loop"
    /\ \E bit \in 0..1 :
        LET it == rough_random_merge_step(data, smp.begin, smp.mid, smp.end, gen_bool(bit))
        IN  /\ data' = it.data
            /\ smp' = [smp EXCEPT !.begin = it.begin, !.mid = it.mid, !.left = it.begin]
            /\ pc' = IF it.break THEN "insertion" ELSE "loop"
            /\ ops' = [NoMergeStep EXCEPT !.name = IF it.break THEN "break" ELSE "checked",
                                          !.bit = bit,
                                          !.begin = smp.begin, !.mid = smp.mid, !.data = data]
    /\ UNCHANGED <<orig, cfg>>
    /\ UNCHANGED mergeIdle

\* one iteration of insertion_shuffle
InsertionStep ==
    /\ pc = "insertion"
    /\ smp.left < smp.end
    /\ \E partner \in gen_index_values(smp.end - smp.left) :
        /\ data' = swap(data, smp.left, partner)
        /\ ops' = [NoMergeStep EXCEPT !.name = "insertion", !.ub = smp.end - smp.left,
                                      !.left = smp.left, !.partner = partner, !.data = data]
    /\ smp' = [smp EXCEPT !.left = smp.left + 1]
    /\ pc' = "insertion"
    /\ UNCHANGED <<orig, cfg>>
    /\ UNCHANGED mergeIdle

InsertionReturn ==
    /\ pc = "insertion"
    /\ smp.left = smp.end
    /\ pc' = "returned"
    /\ ops' = [NoMergeStep EXCEPT !.name = "return"]
    /\ UNCHANGED <<data, smp, orig, cfg>>
    /\ UNCHANGED mergeIdle

NextMerge == MergeBatch \/ MergeUnchecked \/ MergeChecked \/ InsertionStep \/ InsertionReturn

SpecMerge == InitMerge /\ [][NextMerge]_vars

\* an element of the left run
IsLeft(e) == e <= cfg.left_len

\* the three regions of the rough merge
MergeRegions(d, begin, mid, end) ==
    /\ 0 <= begin /\ begin <= mid /\ mid <= end
    /\ \A q \in begin..(mid - 1) : IsLeft(d[q + 1])
    /\ \A q \in mid..(end - 1) : ~IsLeft(d[q + 1])

\* the last step merged one element, a right one exactly when mid advanced
MergedOne ==
    ops.name \in {"unchecked", "checked"} =>
        /\ smp.begin = ops.begin + 1
        /\ smp.mid \in {ops.mid, ops.mid + 1}
        /\ ~IsLeft(data[ops.begin + 1]) <=> smp.mid = ops.mid + 1
        /\ SameMultiset(data, ops.data)

\* the last unchecked iteration did what the checked loop does on its bit
UncheckedAsChecked ==
    ops.name = "unchecked" =>
        LET it == rough_random_merge_step(ops.data, ops.begin, ops.mid, smp.end, gen_bool(ops.bit))
        IN  /\ ~it.break
            /\ data = it.data /\ smp.begin = it.begin /\ smp.mid = it.mid

\* C28: in both variants of the rough random merge 0 <= begin <= mid <= end,
\* slots [begin, mid) hold only left elements and slots [mid, end) only right
\* elements, every step merges one element, a right one exactly when mid
\* advances, and an unchecked iteration does what the checked loop does on the
\* same coin bit
C28_ThreeRegionsKept ==
    /\ pc \in {"batch", "unchecked", "loop"} => MergeRegions(data, smp.begin, smp.mid, smp.end)
    /\ MergedOne
    /\ UncheckedAsChecked

\* the same statement for the build without unsafe_algos
SafeMergeRegionsKept ==
    ~cfg.unsafe_algos => C28_ThreeRegionsKept

\* C29: insertion_shuffle draws the partner of position i with bound i + 1, so
\* the partner is one of the positions 0..i
C29_PartnerWithinPrefix ==
    ops.name = "insertion" =>
        /\ ops.ub = ops.left + 1
        /\ ops.partner \in 0..ops.left

\* what the iterations of insertion_shuffle do keep: positions in increasing
\* order from num_merged, one swap each with a partner inside the slice
InsertionInOrder ==
    /\ ops.name = "insertion" =>
        /\ smp.left = ops.left + 1
        /\ ops.partner \in 0..(smp.end - 1)
        /\ data = swap(ops.data, ops.left, ops.partner)
    /\ pc = "returned" => smp.left = smp.end

\* ---------------------------------------------------------------------------
\* fisher_yates/with_prefetch_alt.rs: the unrolled forward Fisher-Yates that
\* draws two indices from one word
\* ---------------------------------------------------------------------------

\* step! calls of one round (UNROLL, 4 in the source)
AltUnroll == 2
\* width standing for u32 in gen_index_pair; rand has twice the width
AltBits == 4
\* longest slice of distinct elements
MaxAltN == 8

ELEMS_PER_ROUND == 2 * AltUnroll

\* the values gen_index_impl(rng, initial, ub) can return: hi of the initial
\* word if it accepts it, else hi of a later word it accepts
gen_index_impl_values(w, initial, ub) ==
    IF accepts(w, ub, initial)
    THEN {wide_multiply(w, initial, ub).hi}
    ELSE {wide_multiply(w, x, ub).hi : x \in {y \in Words(w) : accepts(w, ub, y)}}

\* the pairs impl_u32::gen_index_pair can return on the word rand
gen_index_pair(w, rand, ub0, ub1) ==
    LET r0 == rand % Pow2(w)
        r1 == (rand \div Pow2(w)) % Pow2(w)
        m0 == wide_multiply(w, r0, ub0)
        m1 == wide_multiply(w, r1, ub1)
    IN  IF m0.lo < ub0 \/ m1.lo < ub1
        THEN gen_index_impl_values(w, r0, ub0) \X gen_index_impl_values(w, r1, ub1)
        ELSE {<<m0.hi, m1.hi>>}

\* the pairs gen_index_pair can return on the words the RNG can deliver
gen_index_pairs(w, ub0, ub1) ==
    UNION {gen_index_pair(w, rand, ub0, ub1) : rand \in Words(2 * w)}

\* the slices handed to fisher_yates_u32: distinct elements up to MaxAltN, and
\* one slice long enough for two rounds, of equal elements but the last
AltInputs ==
    {Identity(n) : n \in 0..MaxAltN} \cup {<<1, 1, 1, 1, 1, 1, 1, 1, 1, 1, 1, 2>>}

altIdle == <<buckets, fy, stack, cfg, par>>

\* the swaps of the last step! and the number of swaps of the round so far
NoRound == [done |-> 0, swaps |-> <<>>]

InitAlt ==
    /\ data \in AltInputs
    /\ smp = [entry |-> "fisher_yates_u32", base |-> 0, i |-> 0]
    /\ ops = NoRound
    /\ pc = "while"
    /\ orig = [data |-> data, buckets |-> <<>>]
    /\ buckets = <<>>
    /\ fy = NoFisherYates
    /\ stack = <<>>
    /\ cfg = NoConfig
    /\ par = NoPar

\* the slice data refers to
AltLen == Len(data) - smp.base

\* the test of the while loop
AltWhile ==
    /\ pc = "while"
    /\ IF AltLen >= 2 * ELEMS_PER_ROUND
       THEN /\ pc' = "step"
            /\ ops' = NoRound
       ELSE /\ pc' = "naive"
            /\ ops' = ops
    /\ smp' = [smp EXCEPT !.i = 0]
    /\ UNCHANGED <<data, orig>>
    /\ UNCHANGED altIdle

\* one step!(i); after the last one the slice drops its first ELEMS_PER_ROUND
AltStep ==
    /\ pc = "step"
    /\ LET n == AltLen
           i == smp.i
           b == smp.base
       IN  \E pair \in gen_index_pairs(AltBits, n - i, n - 1 - i) :
                /\ data' = swap(swap(data, b + i, b + i + pair[1]), b + i + 1, b + i + pair[2])
                /\ ops' = [done |-> ops.done + 2,
                           swaps |-> <<[p |-> i, partner |-> i + pair[1], n |-> n],
                                       [p |-> i + 1, partner |-> i + pair[2], n |-> n]>>]
                /\ IF i + 2 = ELEMS_PER_ROUND
                   THEN /\ smp' = [smp EXCEPT !.base = b + ELEMS_PER_ROUND, !.i = 0]
                        /\ pc' = "while"
                   ELSE /\ smp' = [smp EXCEPT !.i = i + 2]
                        /\ pc' = "step"
    /\ UNCHANGED orig
    /\ UNCHANGED altIdle

\* super::naive::fisher_yates(rng, data) on what is left of the slice
AltNaive ==
    /\ pc = "naive"
    /\ \E js \in DrawSequences(AltLen - 1) :
        data' = SubSeq(data, 1, smp.base)
                \o fisher_yates_from(SubSeq(data, smp.base + 1, Len(data)), AltLen - 1, js)
    /\ pc' = "returned"
    /\ UNCHANGED <<smp, ops, orig>>
    /\ UNCHANGED altIdle

NextAlt == AltWhile \/ AltStep \/ AltNaive

SpecAlt == InitAlt /\ [][NextAlt]_vars

\* C30: in a round over a slice of length n the positions 0, 1, ... are swapped
\* once each in increasing order, position p with a partner of [p, n), so that
\* every index is inside the slice and no position already fixed is swapped
\* again
C30_PartnerFromPositionOn ==
    /\ \A k \in 1..Len(ops.swaps) :
          /\ ops.swaps[k].p = ops.done - Len(ops.swaps) + k - 1
          /\ ops.swaps[k].partner \in ops.swaps[k].p..(ops.swaps[k].n - 1)
    /\ ops.done <= ELEMS_PER_ROUND
    /\ (pc = "while" /\ smp.base > 0) => ops.done = ELEMS_PER_ROUND

\* what the rounds do keep: positions in increasing order, once each, every
\* index inside the slice; the partner of an odd position p lies in [p-1, n-1)
AltSwapsInsideSlice ==
    /\ \A k \in 1..Len(ops.swaps) :
          /\ ops.swaps[k].p = ops.done - Len(ops.swaps) + k - 1
          /\ ops.swaps[k].partner \in 0..(ops.swaps[k].n - 1)
          /\ ops.swaps[k].p % 2 = 1 =>
                ops.swaps[k].partner \in (ops.swaps[k].p - 1)..(ops.swaps[k].n - 2)
          /\ ops.swaps[k].p % 2 = 0 =>
                ops.swaps[k].partner \in ops.swaps[k].p..(ops.swaps[k].n - 1)
    /\ ops.done <= ELEMS_PER_ROUND
    /\ (pc = "while" /\ smp.base > 0) => ops.done = ELEMS_PER_ROUND
    /\ SameMultiset(data, orig.data)
====
